---- MODULE Spec2Model ----
(***************************************************************************)
(* Access-probing engine of the Aidbox access-policy tester.               *)
(*                                                                         *)
(* The model follows the service class AidboxService: the operation        *)
(* catalog OPERATIONS, the per-probe routine testSingleOperation with its  *)
(* policy attribution (getAccessPolicyFromHeaders, findAllowingPolicy),    *)
(* the fan-out/fan-in testAccessBatch of the parallel iteration, and the   *)
(* FHIR-Bundle iteration of testAccessBatch with parseBatchResponse and    *)
(* buildErrorResults.  The resource server is the environment: it answers  *)
(* every request according to a server profile fixed for one behaviour.    *)
(***************************************************************************)
EXTENDS Integers, Sequences, FiniteSets, TLC

\* JavaScript null / undefined.
NULL == "NULL"

\* null / undefined where an object is expected.
NONE == [undefined |-> TRUE]

\* ------------------------------------------------------------------------
\* Bounds of the model.
\* ------------------------------------------------------------------------

\* Longest resourceTypes array a caller passes.
MaxTypes == 1

\* ------------------------------------------------------------------------
\* Operation catalog.
\* ------------------------------------------------------------------------

PLACEHOLDER == "__nonexistent__"

OPERATIONS ==
    << [key |-> "search", method |-> "GET"],
       [key |-> "read",   method |-> "GET"],
       [key |-> "create", method |-> "POST"],
       [key |-> "update", method |-> "PUT"],
       [key |-> "patch",  method |-> "PATCH"],
       [key |-> "delete", method |-> "DELETE"] >>

NumOps == Len(OPERATIONS)

OpKeys == { OPERATIONS[i].key : i \in 1..NumOps }

\* A relative FHIR url: path segments and query parameters.
\* resourceId = NULL stands for an absent (undefined) id.
getUrl(key, resourceType, resourceId) ==
    IF key = "search" THEN [path |-> <<resourceType>>, query |-> <<"_count=0">>]
    ELSE IF key = "create" THEN [path |-> <<resourceType>>, query |-> <<>>]
    ELSE [path  |-> <<resourceType,
                      IF resourceId = NULL THEN PLACEHOLDER ELSE resourceId>>,
          query |-> <<>>]

\* The request body testSingleOperation serialises for an operation.
NoBody == [json |-> "none", resourceType |-> NULL, id |-> NULL]

\* Mutant of requestBody: the update body always names the placeholder.
requestBody_placeholderOnly(key, resourceType, sampleId) ==
    IF key = "create"
    THEN [json |-> "resource", resourceType |-> resourceType, id |-> NULL]
    ELSE IF key = "update"
    THEN [json |-> "resource", resourceType |-> resourceType, id |-> PLACEHOLDER]
    ELSE IF key = "patch"
    THEN [json |-> "patch-test", resourceType |-> resourceType, id |-> NULL]
    ELSE NoBody

requestBody(key, resourceType, sampleId) ==
    IF key = "create"
    THEN [json |-> "resource", resourceType |-> resourceType, id |-> NULL]
    ELSE IF key = "update"
    THEN [json |-> "resource", resourceType |-> resourceType,
          id |-> IF sampleId = NULL THEN PLACEHOLDER ELSE sampleId]
    ELSE IF key = "patch"
    THEN [json |-> "patch-test", resourceType |-> resourceType, id |-> NULL]
    ELSE NoBody

\* `/fhir/${baseUrl}` : the url handed to requestAsUser.
fhirUrl(url) == [path |-> <<"fhir">> \o url.path, query |-> url.query]

\* `/${url}` : the path the Bundle iteration reports.
rootUrl(url) == [path |-> url.path, query |-> url.query]

\* findAllowingPolicy: the same url with __debug=policy appended.
debugUrl(url) ==
    [path |-> <<"fhir">> \o url.path, query |-> Append(url.query, "__debug=policy")]

getStatusText(status) ==
    CASE status = 200 -> "OK"
      [] status = 201 -> "Created"
      [] status = 204 -> "No Content"
      [] status = 400 -> "Bad Request"
      [] status = 401 -> "Unauthorized"
      [] status = 403 -> "Forbidden"
      [] status = 404 -> "Not Found"
      [] status = 405 -> "Method Not Allowed"
      [] status = 409 -> "Conflict"
      [] status = 410 -> "Gone"
      [] status = 422 -> "Unprocessable Entity"
      [] status = 500 -> "Internal Server Error"
      [] OTHER -> "Unknown"

\* ------------------------------------------------------------------------
\* The resource server (environment).
\* ------------------------------------------------------------------------

Types == {"Patient", "Observation"}

\* What fetch() delivers: a response, or a rejection (transport failure).
Resp(s) ==
    [ok |-> TRUE, status |-> s,
     body |-> IF s = 204 THEN NULL ELSE "json", message |-> NULL]

Fail == [ok |-> FALSE, status |-> 0, body |-> NULL, message |-> "fetch failed"]

HeaderNames == {"x-access-policy", "x-aidbox-access-policy", "x-debug"}

NoHeaders == [h \in HeaderNames |-> NULL]

Hdr(name, value) == [h \in HeaderNames |-> IF h = name THEN value ELSE NULL]

\* The json a __debug=policy request answers with.
Trace(hasPolicies, policies, hasRequest, requestPolicies) ==
    [kind |-> "json", hasPolicies |-> hasPolicies, policies |-> policies,
     hasRequest |-> hasRequest, requestPolicies |-> requestPolicies]

TraceFail == [kind |-> "fail", hasPolicies |-> FALSE, policies |-> <<>>,
              hasRequest |-> FALSE, requestPolicies |-> <<>>]

TraceNoJson == [kind |-> "nojson", hasPolicies |-> FALSE, policies |-> <<>>,
                hasRequest |-> FALSE, requestPolicies |-> <<>>]

\* A json answer whose policies member is no array: policies.find throws.
TraceMalformed == [kind |-> "malformed", hasPolicies |-> TRUE, policies |-> <<>>,
                   hasRequest |-> FALSE, requestPolicies |-> <<>>]

Pol(id, ev) == [id |-> id, evalResult |-> ev]

\* One answer per operation, the same for every resource type in scope;
\* a type out of scope is refused with 403.
Answers(search, read, create, update, patch, delete) ==
    [k \in OpKeys |->
        CASE k = "search" -> search
          [] k = "read"   -> read
          [] k = "create" -> create
          [] k = "update" -> update
          [] k = "patch"  -> patch
          [] k = "delete" -> delete]

Profile(name, scope, answers, headers, trace, bundle, dropped) ==
    [name |-> name, scope |-> scope, answers |-> answers, headers |-> headers,
     trace |-> trace, bundle |-> bundle, dropped |-> dropped]

ServerProfiles ==
    { \* no policy grants anything
      Profile("deny-all", Types,
              Answers(Resp(403), Resp(403), Resp(403), Resp(403), Resp(403), Resp(403)),
              NoHeaders, TraceFail, Resp(200), 0),
      \* the credential itself is refused; the composite endpoint refuses too
      Profile("bad-token", Types,
              Answers(Resp(401), Resp(401), Resp(401), Resp(401), Resp(401), Resp(401)),
              NoHeaders, TraceFail, Resp(401), 0),
      \* only FhirRead on Patient; the trace names the allowing policy second
      Profile("read-only", {"Patient"},
              Answers(Resp(403), Resp(404), Resp(403), Resp(403), Resp(403), Resp(403)),
              NoHeaders,
              Trace(TRUE, <<Pol("deny-rule", FALSE), Pol("fhir-read", TRUE),
                            Pol("as-admin", TRUE)>>, FALSE, <<>>),
              Resp(200), 0),
      \* everything allowed, dev mode names the policy in a header
      Profile("allow-all-header", Types,
              Answers(Resp(200), Resp(404), Resp(201), Resp(422), Resp(410), Resp(204)),
              Hdr("x-access-policy", "allow-all"), TraceFail, Resp(200), 0),
      \* two header names at once, refusals carry them too
      Profile("two-headers", Types,
              Answers(Resp(403), Resp(200), Resp(401), Resp(500), Resp(403), Resp(400)),
              [h \in HeaderNames |->
                  CASE h = "x-aidbox-access-policy" -> "aidbox-policy"
                    [] h = "x-debug" -> "debug-policy"
                    [] OTHER -> NULL],
              TraceFail, Resp(200), 0),
      \* search and delete allowed, trace nested under request, first true
      \* entry has no id
      Profile("nested-trace", Types,
              Answers(Resp(200), Resp(403), Resp(409), Resp(405), Resp(403), Resp(410)),
              NoHeaders,
              Trace(FALSE, <<>>, TRUE, <<Pol(NULL, TRUE), Pol("late", TRUE)>>),
              Resp(500), 0),
      \* flaky network: some requests never get an answer, debug disabled
      Profile("flaky", Types,
              Answers(Fail, Resp(404), Resp(403), Fail, Resp(500), Resp(401)),
              NoHeaders, TraceNoJson, Fail, 0),
      \* empty top-level policies array shadows the nested one; the composite
      \* answer lacks its last entry
      Profile("empty-trace", {"Patient"},
              Answers(Resp(403), Resp(403), Resp(201), Resp(403), Resp(403), Resp(403)),
              NoHeaders,
              Trace(TRUE, <<>>, TRUE, <<Pol("nested", TRUE)>>),
              Resp(200), 1),
      \* server unreachable
      Profile("down", Types,
              Answers(Fail, Fail, Fail, Fail, Fail, Fail),
              NoHeaders, TraceFail, Fail, 0),
      \* search allowed, the debug request fails in transport
      Profile("debug-down", {"Patient"},
              Answers(Resp(200), Resp(403), Resp(403), Resp(403), Resp(403), Resp(403)),
              NoHeaders, TraceFail, Resp(200), 0),
      \* read allowed, the trace names its policies in no array
      Profile("trace-malformed", {"Patient"},
              Answers(Resp(403), Resp(200), Resp(403), Resp(403), Resp(403), Resp(403)),
              NoHeaders, TraceMalformed, Resp(200), 0),
      \* delete allowed, no policy of the trace evaluated to true
      Profile("no-true-policy", {"Patient"},
              Answers(Resp(403), Resp(403), Resp(403), Resp(403), Resp(403), Resp(204)),
              NoHeaders,
              Trace(TRUE, <<Pol("deny-rule", FALSE), Pol("other", FALSE)>>,
                    TRUE, <<Pol("nested", TRUE)>>),
              Resp(200), 0) }

\* The answer of the server to the request for one (resourceType, operation).
primaryOutcome(srv, resourceType, key) ==
    IF resourceType \in srv.scope THEN srv.answers[key] ELSE Resp(403)

\* Every status the profiles can answer with.
KnownStatuses ==
    {200, 201, 204, 400, 401, 403, 404, 405, 409, 410, 422, 500}

\* ------------------------------------------------------------------------
\* Result classifier and policy attribution.
\* ------------------------------------------------------------------------

\* First recognised header that carries a value, else null.
getAccessPolicyFromHeaders(headers) ==
    IF headers["x-access-policy"] # NULL THEN headers["x-access-policy"]
    ELSE IF headers["x-aidbox-access-policy"] # NULL
    THEN headers["x-aidbox-access-policy"]
    ELSE IF headers["x-debug"] # NULL THEN headers["x-debug"]
    ELSE NULL

\* Mutant of accessAllowed: 410 Gone left out of the allowed statuses.
accessAllowed_without410(status) ==
    \/ (status >= 200 /\ status < 300)
    \/ status = 404
    \/ status = 422

\* 2xx, 404, 410 and 422 mean the policy layer let the request through.
accessAllowed(status) ==
    \/ (status >= 200 /\ status < 300)
    \/ status = 404
    \/ status = 410
    \/ status = 422

\* data.policies || data.request?.policies || []  (an empty array is truthy)
tracePolicies(data) ==
    IF data.hasPolicies THEN data.policies
    ELSE IF data.hasRequest THEN data.requestPolicies
    ELSE <<>>

\* Mutant of findAllowingPolicy: the first policy of the trace is taken
\* without looking at its eval-result.
findAllowingPolicy_firstEntry(trace) ==
    IF trace.kind # "json" THEN NULL
    ELSE LET policies == tracePolicies(trace)
         IN  IF Len(policies) = 0 THEN NULL ELSE policies[1].id

\* What findAllowingPolicy resolves to for one answer of the debug request:
\* the id of the first policy whose eval-result is true, null when the
\* request failed, the answer is no json, or no such policy carries an id.
findAllowingPolicy(trace) ==
    IF trace.kind # "json" THEN NULL
    ELSE LET policies == tracePolicies(trace)
             hits == { i \in 1..Len(policies) : policies[i].evalResult = TRUE }
         IN  IF hits = {} THEN NULL
             ELSE LET first == CHOOSE i \in hits : \A j \in hits : i <= j
                  IN  policies[first].id

\* The AccessTestResult testSingleOperation returns from its try block.
responseResult(resourceType, op, sampleId, response, accessPolicy) ==
    [operation    |-> op.key,
     resourceType |-> resourceType,
     method       |-> op.method,
     path         |-> fhirUrl(getUrl(op.key, resourceType, sampleId)),
     status       |-> response.status,
     statusText   |-> getStatusText(response.status),
     accessPolicy |-> accessPolicy,
     allowed      |-> accessAllowed(response.status),
     unauthorized |-> response.status = 401,
     denied       |-> response.status = 403,
     notFound     |-> (response.status = 404 \/ response.status = 410),
     error        |-> IF response.status >= 400 THEN response.body ELSE NULL,
     body         |-> response.body]

\* The AccessTestResult testSingleOperation returns from its catch block.
caughtResult(resourceType, op, sampleId, message) ==
    [operation    |-> op.key,
     resourceType |-> resourceType,
     method       |-> op.method,
     path         |-> fhirUrl(getUrl(op.key, resourceType, sampleId)),
     status       |-> 0,
     statusText   |-> "Error",
     accessPolicy |-> NULL,
     allowed      |-> FALSE,
     unauthorized |-> FALSE,
     denied       |-> FALSE,
     notFound     |-> FALSE,
     error        |-> message,
     body         |-> NULL]

\* ------------------------------------------------------------------------
\* The FHIR-Bundle iteration: one composite request, answers parsed back.
\* Its call site is the first AidboxService class of services/aidbox.ts; the
\* later iterations keep parseBatchResponse and buildErrorResults, now with
\* the unauthorized flag, and that text is what is modelled here.
\* ------------------------------------------------------------------------

\* parseInt yields NaN for text that starts with no digit; every comparison
\* the classifier makes with NaN is false, as it is with -1.
NaN == 0 - 1

parseInt10(text) ==
    IF \E n \in KnownStatuses \cup {0} : ToString(n) = text
    THEN CHOOSE n \in KnownStatuses \cup {0} : ToString(n) = text
    ELSE NaN

opIndex(key) == CHOOSE i \in 1..NumOps : OPERATIONS[i].key = key

Range(seq) == { seq[i] : i \in 1..Len(seq) }

\* The entry list of the Bundle the server answers with: one entry per
\* requested (resourceType, operation) in request order, the last
\* srv.dropped of them missing; an operation the server could not carry out
\* has an entry without response.status.
bundleEntries(srv, types) ==
    LET n == Len(types) * NumOps
        kept == IF srv.dropped > n THEN 0 ELSE n - srv.dropped
    IN  [i \in 1..kept |->
            LET rt == types[((i - 1) \div NumOps) + 1]
                op == OPERATIONS[((i - 1) % NumOps) + 1]
                out == primaryOutcome(srv, rt, op.key)
            IN  [status   |-> IF out.ok THEN ToString(out.status) ELSE NULL,
                 resource |-> out.body]]

\* The result parseBatchResponse builds for entry number entryIndex.
parsedEntry(entries, entryIndex, resourceType, op) ==
    LET present == entryIndex <= Len(entries)
        text   == IF present /\ entries[entryIndex].status # NULL
                  THEN entries[entryIndex].status ELSE "0"
        status == parseInt10(text)
        resource == IF present THEN entries[entryIndex].resource ELSE NULL
    IN  [operation    |-> op.key,
         resourceType |-> resourceType,
         method       |-> op.method,
         path         |-> rootUrl(getUrl(op.key, resourceType, NULL)),
         status       |-> status,
         statusText   |-> getStatusText(status),
         accessPolicy |-> NULL,
         allowed      |-> (status >= 200 /\ status < 300),
         unauthorized |-> status = 401,
         denied       |-> status = 403,
         notFound     |-> status = 404,
         error        |-> IF status >= 400 THEN resource ELSE NULL,
         body         |-> resource]

RECURSIVE parseLoop(_, _, _, _)
parseLoop(entries, types, entryIndex, acc) ==
    IF entryIndex > Len(types) * NumOps THEN acc
    ELSE LET rt == types[((entryIndex - 1) \div NumOps) + 1]
             op == OPERATIONS[((entryIndex - 1) % NumOps) + 1]
             r  == parsedEntry(entries, entryIndex, rt, op)
         IN  parseLoop(entries, types, entryIndex + 1,
                       (rt :> ((op.key :> r) @@ acc[rt])) @@ acc)

EmptyResults(types) == [rt \in Range(types) |-> [k \in {} |-> NULL]]

parseBatchResponse(entries, types) ==
    parseLoop(entries, types, 1, EmptyResults(types))

\* Mutant of errorEntry: every 4xx answer of the composite request is
\* reported as denied.
errorEntry_deniedAny4xx(resourceType, op, status, error) ==
    [operation    |-> op.key,
     resourceType |-> resourceType,
     method       |-> op.method,
     path         |-> rootUrl(getUrl(op.key, resourceType, NULL)),
     status       |-> status,
     statusText   |-> "Error",
     accessPolicy |-> NULL,
     allowed      |-> FALSE,
     unauthorized |-> status = 401,
     denied       |-> (status >= 400 /\ status < 500),
     notFound     |-> FALSE,
     error        |-> error,
     body         |-> NULL]

errorEntry(resourceType, op, status, error) ==
    [operation    |-> op.key,
     resourceType |-> resourceType,
     method       |-> op.method,
     path         |-> rootUrl(getUrl(op.key, resourceType, NULL)),
     status       |-> status,
     statusText   |-> "Error",
     accessPolicy |-> NULL,
     allowed      |-> FALSE,
     unauthorized |-> status = 401,
     denied       |-> status = 403,
     notFound     |-> FALSE,
     error        |-> error,
     body         |-> NULL]

buildErrorResults(types, status, error) ==
    [rt \in Range(types) |->
        [k \in OpKeys |-> errorEntry(rt, OPERATIONS[opIndex(k)], status, error)]]

\* ------------------------------------------------------------------------
\* State.
\* ------------------------------------------------------------------------

VARIABLES
    server,         \* the profile the resource server answers by
    strategy,       \* "parallel": individual requests; "bundle": one Bundle
    resourceTypes,  \* the resourceTypes array of the call
    sampleIds,      \* resource type -> sample id, NULL when none
    pc,             \* where the call is: idle, running, bundle, returned
    testPromises,   \* one entry per started testSingleOperation
    results,        \* the Record<string, AccessTestResults> being built
    sent,           \* every request handed to fetch so far
    clock,          \* Date.now(), in milliseconds
    cachedToken,    \* AidboxService._cachedToken
    calls,          \* the getAccessToken / resolveAuthHeader calls made so far
    config,         \* process.env as the service getters read it
    memo,           \* the private fields the lazy getters fill
    route,          \* the HTTP request a route handler is serving
    runs,           \* the testAccessBatch calls of that handler
    store,          \* the resources the server holds
    served          \* the responses of the requests served before

vars == <<server, strategy, resourceTypes, sampleIds, pc, testPromises,
          results, sent, clock, cachedToken, calls, config, memo, route, runs,
          store, served>>

engineVars == <<server, strategy, resourceTypes, sampleIds, pc, testPromises,
                results, sent>>

resolverVars == <<clock, cachedToken, calls, config, memo>>

routeVars == <<route, runs, store, served>>

NoSampleIds == [rt \in Types |-> NULL]

\* The order the resource catalog lists the types in.
CatalogOrder == <<"Patient", "Observation">>

CatalogIndex(rt) == CHOOSE i \in 1..Len(CatalogOrder) : CatalogOrder[i] = rt

\* The arrays a caller passes: up to MaxTypes names in catalog order, a name
\* possibly repeated.
InputLists ==
    { types \in UNION { [1..n -> Types] : n \in 0..MaxTypes } :
        \A i \in 1..(Len(types) - 1) :
            CatalogIndex(types[i]) <= CatalogIndex(types[i + 1]) }

\* /test-batch and /compare pass no sample ids; /test passes one resource
\* type and, when given, an existing resource id as its sample id.
InputCases ==
    { [resourceTypes |-> types, sampleIds |-> NoSampleIds] : types \in InputLists }
    \cup
    { [resourceTypes |-> <<"Patient">>,
       sampleIds |-> [rt \in Types |-> IF rt = "Patient" THEN "pt-1" ELSE NULL]] }

\* The private fields of a service whose getters were never read.
NoMemo ==
    [_baseUrl |-> NULL, _clientId |-> NULL, _clientSecret |-> NULL,
     _userAuthClientId |-> NULL, _userAuthClientSecret |-> NULL]

\* No token was ever requested and none is cached.
ResolverUnused ==
    /\ clock = 0
    /\ cachedToken = NONE
    /\ calls = <<>>
    /\ config = NONE
    /\ memo = NoMemo

\* No route handler is running.
RoutesUnused ==
    /\ route = NONE
    /\ runs = <<>>
    /\ store = {}
    /\ served = <<>>

Init ==
    /\ server \in ServerProfiles
    /\ strategy \in {"parallel", "bundle"}
    /\ \E c \in InputCases :
          /\ resourceTypes = c.resourceTypes
          /\ sampleIds = c.sampleIds
    /\ pc = "idle"
    /\ testPromises = <<>>
    /\ results = <<>>
    /\ sent = {}
    /\ ResolverUnused
    /\ RoutesUnused

\* ------------------------------------------------------------------------
\* testSingleOperation, one step per suspension point.
\* ------------------------------------------------------------------------

Pending == [state |-> "pending", value |-> NULL]

Fulfilled(v) == [state |-> "fulfilled", value |-> v]

NoResponse == [ok |-> FALSE, status |-> 0, body |-> NULL, message |-> NULL]

\* The request testSingleOperation hands to requestAsUser.
probeRequest(resourceType, op, sampleId) ==
    [kind   |-> "probe",
     method |-> op.method,
     url    |-> fhirUrl(getUrl(op.key, resourceType, sampleId)),
     body   |-> requestBody(op.key, resourceType, sampleId)]

\* The request findAllowingPolicy hands to fetch: GET and DELETE carry no body.
debugRequest(resourceType, op, sampleId) ==
    [kind   |-> "debug",
     method |-> op.method,
     url    |-> debugUrl(getUrl(op.key, resourceType, sampleId)),
     body   |-> IF op.method # "GET" /\ op.method # "DELETE"
                THEN requestBody(op.key, resourceType, sampleId) ELSE NoBody]

\* A testSingleOperation that has run up to its first await.
startProbe(resourceType, op, sampleId) ==
    [resourceType |-> resourceType,
     op           |-> op,
     sampleId     |-> sampleId,
     stage        |-> "fetch",
     fetches      |-> 1,
     debugFetches |-> 0,
     response     |-> NoResponse,
     promise      |-> Pending]

\* Mutant of testSingleOperation_catch: no try/catch around the fetch, the
\* promise of the probe rejects.
testSingleOperation_uncaught(i) ==
    /\ pc = "running"
    /\ i \in 1..Len(testPromises)
    /\ testPromises[i].stage = "fetch"
    /\ LET p   == testPromises[i]
           out == primaryOutcome(server, p.resourceType, p.op.key)
       IN  /\ ~out.ok
           /\ testPromises' = [testPromises EXCEPT ![i] =
                 [p EXCEPT !.stage = "settled",
                           !.promise = [state |-> "rejected", value |-> NULL]]]
    /\ UNCHANGED <<resolverVars, routeVars>>
    /\ UNCHANGED <<server, strategy, resourceTypes, sampleIds, pc, results, sent>>

\* Mutant of testSingleOperation_catch: a failed fetch is tried once more
\* before the failure is reported.
testSingleOperation_retry(i) ==
    /\ pc = "running"
    /\ i \in 1..Len(testPromises)
    /\ testPromises[i].stage = "fetch"
    /\ LET p   == testPromises[i]
           out == primaryOutcome(server, p.resourceType, p.op.key)
       IN  /\ ~out.ok
           /\ testPromises' = [testPromises EXCEPT ![i] =
                 IF p.fetches < 2
                 THEN [p EXCEPT !.fetches = @ + 1]
                 ELSE [p EXCEPT !.stage = "settled",
                                !.promise = Fulfilled(caughtResult(
                                    p.resourceType, p.op, p.sampleId, out.message))]]
    /\ UNCHANGED <<resolverVars, routeVars>>
    /\ UNCHANGED <<server, strategy, resourceTypes, sampleIds, pc, results, sent>>

\* fetch rejects: the catch block turns the failure into this probe's result.
testSingleOperation_catch(i) ==
    /\ pc = "running"
    /\ i \in 1..Len(testPromises)
    /\ testPromises[i].stage = "fetch"
    /\ LET p   == testPromises[i]
           out == primaryOutcome(server, p.resourceType, p.op.key)
       IN  /\ ~out.ok
           /\ testPromises' = [testPromises EXCEPT ![i] =
                 [p EXCEPT !.stage = "settled",
                           !.promise = Fulfilled(caughtResult(
                               p.resourceType, p.op, p.sampleId, out.message))]]
    /\ UNCHANGED <<resolverVars, routeVars>>
    /\ UNCHANGED <<server, strategy, resourceTypes, sampleIds, pc, results, sent>>

\* The response arrives: classify it; when it is allowed and no header names
\* a policy, start the debug request, otherwise return the result.
testSingleOperation_response(i) ==
    /\ pc = "running"
    /\ i \in 1..Len(testPromises)
    /\ testPromises[i].stage = "fetch"
    /\ LET p   == testPromises[i]
           out == primaryOutcome(server, p.resourceType, p.op.key)
           accessPolicy == getAccessPolicyFromHeaders(server.headers)
       IN  /\ out.ok
           /\ IF accessAllowed(out.status) /\ accessPolicy = NULL
              THEN /\ testPromises' = [testPromises EXCEPT ![i] =
                         [p EXCEPT !.stage = "debug",
                                   !.debugFetches = @ + 1,
                                   !.response = out]]
                   /\ sent' = sent \cup
                         {debugRequest(p.resourceType, p.op, p.sampleId)}
              ELSE /\ testPromises' = [testPromises EXCEPT ![i] =
                         [p EXCEPT !.stage = "settled",
                                   !.response = out,
                                   !.promise = Fulfilled(responseResult(
                                       p.resourceType, p.op, p.sampleId, out,
                                       accessPolicy))]]
                   /\ sent' = sent
    /\ UNCHANGED <<resolverVars, routeVars>>
    /\ UNCHANGED <<server, strategy, resourceTypes, sampleIds, pc, results>>

\* Mutant of testSingleOperation_debug: findAllowingPolicy has no try/catch
\* of its own, a failed lookup lands in the catch block of the probe.
testSingleOperation_debugUncaught(i) ==
    /\ pc = "running"
    /\ i \in 1..Len(testPromises)
    /\ testPromises[i].stage = "debug"
    /\ LET p == testPromises[i]
       IN  testPromises' = [testPromises EXCEPT ![i] =
              [p EXCEPT !.stage = "settled",
                        !.promise = Fulfilled(
                            IF server.trace.kind = "json"
                            THEN responseResult(p.resourceType, p.op, p.sampleId,
                                     p.response, findAllowingPolicy(server.trace))
                            ELSE caughtResult(p.resourceType, p.op, p.sampleId,
                                     "debug failed"))]]
    /\ UNCHANGED <<resolverVars, routeVars>>
    /\ UNCHANGED <<server, strategy, resourceTypes, sampleIds, pc, results, sent>>

\* findAllowingPolicy resolves (it never rejects): return the result.
testSingleOperation_debug(i) ==
    /\ pc = "running"
    /\ i \in 1..Len(testPromises)
    /\ testPromises[i].stage = "debug"
    /\ LET p == testPromises[i]
       IN  testPromises' = [testPromises EXCEPT ![i] =
              [p EXCEPT !.stage = "settled",
                        !.promise = Fulfilled(responseResult(
                            p.resourceType, p.op, p.sampleId, p.response,
                            findAllowingPolicy(server.trace)))]]
    /\ UNCHANGED <<resolverVars, routeVars>>
    /\ UNCHANGED <<server, strategy, resourceTypes, sampleIds, pc, results, sent>>

\* ------------------------------------------------------------------------
\* testAccessBatch, parallel iteration: fan out, await all, map back.
\* ------------------------------------------------------------------------

\* The testPromises array after the two nested loops.
buildPromises(types, ids) ==
    [i \in 1..(Len(types) * NumOps) |->
        LET rt == types[((i - 1) \div NumOps) + 1]
        IN  startProbe(rt, OPERATIONS[((i - 1) % NumOps) + 1], ids[rt])]

testAccessBatch ==
    /\ pc = "idle"
    /\ strategy = "parallel"
    /\ results' = EmptyResults(resourceTypes)
    /\ testPromises' = buildPromises(resourceTypes, sampleIds)
    /\ sent' = sent \cup
          { probeRequest(testPromises'[i].resourceType, testPromises'[i].op,
                         testPromises'[i].sampleId) :
              i \in 1..Len(testPromises') }
    /\ pc' = "running"
    /\ UNCHANGED <<resolverVars, routeVars>>
    /\ UNCHANGED <<server, strategy, resourceTypes, sampleIds>>

\* Mutant of promiseAllResolved: the first fulfilled promise ends the wait
\* (Promise.race / Promise.any in place of Promise.all).
promiseAnyResolved(promises) ==
    \E i \in 1..Len(promises) : promises[i].promise.state = "fulfilled"

\* Mutant of promiseAllResolved: the wait ends only when every probe got a
\* response; a probe whose request failed keeps the call waiting.
promiseAllResponded(promises) ==
    \A i \in 1..Len(promises) :
        /\ promises[i].promise.state = "fulfilled"
        /\ promises[i].promise.value.status # 0

\* Promise.all resolves once every promise is fulfilled.
promiseAllResolved(promises) ==
    \A i \in 1..Len(promises) : promises[i].promise.state = "fulfilled"

\* Mutant of mapBack: results of failed probes (status 0) are left out of
\* the result set.
RECURSIVE mapBack_dropFailed(_, _, _)
mapBack_dropFailed(promises, i, acc) ==
    IF i > Len(promises) THEN acc
    ELSE LET rt == promises[i].resourceType
             k  == promises[i].op.key
         IN  mapBack_dropFailed(promises, i + 1,
                 IF promises[i].promise.value.status = 0 THEN acc
                 ELSE (rt :> ((k :> promises[i].promise.value) @@ acc[rt])) @@ acc)

RECURSIVE mapBack(_, _, _)
mapBack(promises, i, acc) ==
    IF i > Len(promises) THEN acc
    ELSE LET rt == promises[i].resourceType
             k  == promises[i].op.key
         IN  mapBack(promises, i + 1,
                     (rt :> ((k :> promises[i].promise.value) @@ acc[rt])) @@ acc)

testAccessBatch_return ==
    /\ pc = "running"
    /\ promiseAllResolved(testPromises)
    /\ results' = mapBack(testPromises, 1, results)
    /\ pc' = "returned"
    /\ UNCHANGED <<resolverVars, routeVars>>
    /\ UNCHANGED <<server, strategy, resourceTypes, sampleIds, testPromises, sent>>

\* ------------------------------------------------------------------------
\* testAccessBatch, Bundle iteration.
\* ------------------------------------------------------------------------

bundleRequest(types, ids) ==
    [kind   |-> "bundle",
     method |-> "POST",
     url    |-> [path |-> <<"fhir">>, query |-> <<>>],
     body   |-> [json |-> "Bundle", resourceType |-> "Bundle", id |-> NULL]]

testAccessBatch_bundle ==
    /\ pc = "idle"
    /\ strategy = "bundle"
    /\ sent' = sent \cup {bundleRequest(resourceTypes, sampleIds)}
    /\ pc' = "bundle"
    /\ UNCHANGED <<resolverVars, routeVars>>
    /\ UNCHANGED <<server, strategy, resourceTypes, sampleIds, testPromises, results>>

\* The composite request settles: transport failure and non-2xx answers
\* become error results for every pair, a 2xx answer is parsed entry by entry.
testAccessBatch_bundleReturn ==
    /\ pc = "bundle"
    /\ results' =
          IF ~server.bundle.ok
          THEN buildErrorResults(resourceTypes, 0, server.bundle.message)
          ELSE IF ~(server.bundle.status >= 200 /\ server.bundle.status < 300)
          THEN buildErrorResults(resourceTypes, server.bundle.status,
                                 server.bundle.body)
          ELSE parseBatchResponse(bundleEntries(server, resourceTypes),
                                  resourceTypes)
    /\ pc' = "returned"
    /\ UNCHANGED <<resolverVars, routeVars>>
    /\ UNCHANGED <<server, strategy, resourceTypes, sampleIds, testPromises, sent>>

Next ==
    \/ testAccessBatch
    \/ \E i \in 1..(MaxTypes * NumOps) : testSingleOperation_catch(i)
    \/ \E i \in 1..(MaxTypes * NumOps) : testSingleOperation_response(i)
    \/ \E i \in 1..(MaxTypes * NumOps) : testSingleOperation_debug(i)
    \/ testAccessBatch_return
    \/ testAccessBatch_bundle
    \/ testAccessBatch_bundleReturn

Spec == Init /\ [][Next]_vars

\* One call of the parallel iteration for at most one resource type.
InitLive ==
    /\ Init
    /\ strategy = "parallel"
    /\ Len(resourceTypes) <= 1

NextLive ==
    \/ testAccessBatch
    \/ \E i \in 1..NumOps : testSingleOperation_catch(i)
    \/ \E i \in 1..NumOps : testSingleOperation_response(i)
    \/ \E i \in 1..NumOps : testSingleOperation_debug(i)
    \/ testAccessBatch_return

\* Every request handed to fetch settles, with a response or a failure, and
\* a continuation that is ready to run is run.
RequestsSettle ==
    /\ WF_vars(\E i \in 1..NumOps : testSingleOperation_catch(i))
    /\ WF_vars(\E i \in 1..NumOps : testSingleOperation_response(i))
    /\ WF_vars(\E i \in 1..NumOps : testSingleOperation_debug(i))
    /\ WF_vars(testAccessBatch_return)

SpecLive == InitLive /\ [][NextLive]_vars /\ RequestsSettle

\* ------------------------------------------------------------------------
\* Properties.
\* ------------------------------------------------------------------------

SixOperations == {"search", "read", "create", "update", "patch", "delete"}

Settled == { i \in 1..Len(testPromises) : testPromises[i].stage = "settled" }

\* Every AccessTestResult produced so far: by a finished testSingleOperation,
\* or held in the result set a call returned.
ProducedResults ==
    { testPromises[i].promise.value : i \in Settled }
    \cup
    (IF pc = "returned"
     THEN { results[rt][k] : rt \in DOMAIN results, k \in SixOperations }
     ELSE {})

Flags(r) == <<r.allowed, r.unauthorized, r.denied, r.notFound>>

TableFlags(status) ==
    CASE status >= 200 /\ status < 300 -> <<TRUE, FALSE, FALSE, FALSE>>
      [] status = 401                  -> <<FALSE, TRUE, FALSE, FALSE>>
      [] status = 403                  -> <<FALSE, FALSE, TRUE, FALSE>>
      [] status = 404 \/ status = 410  -> <<TRUE, FALSE, FALSE, TRUE>>
      [] status = 422                  -> <<TRUE, FALSE, FALSE, FALSE>>
      [] OTHER                         -> <<FALSE, FALSE, FALSE, FALSE>>

C3_FlagsExclusive ==
    \A r \in ProducedResults :
        /\ ~(r.unauthorized /\ r.denied)
        /\ ~(r.allowed /\ (r.unauthorized \/ r.denied))

C3_Witness ==
    /\ pc = "returned"
    /\ \E r \in ProducedResults : r.unauthorized /\ r.statusText = "Error"
    /\ \A r \in ProducedResults : r.unauthorized

\* C4: in every result the service produces, notFound implies allowed.
C4_NotFoundImpliesAllowed ==
    \A r \in ProducedResults : r.notFound => r.allowed

\* C5: in every result the service produces, status 0 comes with all four
\* flags false and a populated error field.
C5_StatusZeroHasError ==
    \A r \in ProducedResults :
        r.status = 0 =>
            /\ Flags(r) = <<FALSE, FALSE, FALSE, FALSE>>
            /\ r.error # NULL

\* The last started probe of a (resourceType, operation) pair: the one whose
\* result the map-back loop leaves in the result set.
LastProbe(rt, k) ==
    CHOOSE i \in 1..Len(testPromises) :
        /\ testPromises[i].resourceType = rt
        /\ testPromises[i].op.key = k
        /\ \A j \in 1..Len(testPromises) :
              (testPromises[j].resourceType = rt /\ testPromises[j].op.key = k)
                  => j <= i

\* What the server's own answer to probe i makes of it, whatever happened to
\* the other probes.
OwnResult(i) ==
    LET p   == testPromises[i]
        out == primaryOutcome(server, p.resourceType, p.op.key)
        hdr == getAccessPolicyFromHeaders(server.headers)
    IN  IF out.ok
        THEN responseResult(p.resourceType, p.op, p.sampleId, out,
                 IF hdr # NULL THEN hdr
                 ELSE IF accessAllowed(out.status)
                 THEN findAllowingPolicy(server.trace) ELSE NULL)
        ELSE caughtResult(p.resourceType, p.op, p.sampleId, out.message)

\* C6: a transport failure becomes the result of the failed probe alone
\* (status 0, all flags false, error set); no promise of the call is ever
\* rejected, and every other entry is what the server's answer to its own
\* request makes it, in the promises and in the returned result set.
C6_FailureIsolated ==
    strategy = "parallel" =>
        /\ pc \in {"idle", "running", "returned"}
        /\ \A i \in 1..Len(testPromises) :
              /\ testPromises[i].promise.state \in {"pending", "fulfilled"}
              /\ (testPromises[i].stage = "settled") =
                    (testPromises[i].promise.state = "fulfilled")
        /\ \A i \in Settled :
              LET p   == testPromises[i]
                  out == primaryOutcome(server, p.resourceType, p.op.key)
                  r   == p.promise.value
              IN  /\ r = OwnResult(i)
                  /\ ~out.ok =>
                        /\ r.status = 0
                        /\ Flags(r) = <<FALSE, FALSE, FALSE, FALSE>>
                        /\ r.error # NULL
                  /\ out.ok => r.status = out.status
        /\ pc = "returned" =>
              \A rt \in Range(resourceTypes), k \in SixOperations :
                  results[rt][k] = OwnResult(LastProbe(rt, k))

C6_Witness ==
    /\ pc = "returned"
    /\ strategy = "parallel"
    /\ "Patient" \in DOMAIN results
    /\ results["Patient"]["search"].status = 0
    /\ results["Patient"]["search"].error = "fetch failed"
    /\ results["Patient"]["read"].status = 404
    /\ results["Patient"]["create"].denied
    /\ results["Patient"]["delete"].unauthorized

\* C7: the call has not returned while any of its probes still awaits its
\* primary response or its debug response.
C7_ReturnsAfterAllSettled ==
    (strategy = "parallel" /\ pc = "returned") =>
        /\ Len(testPromises) = Len(resourceTypes) * 6
        /\ \A i \in 1..Len(testPromises) :
              /\ testPromises[i].stage = "settled"
              /\ testPromises[i].promise.state = "fulfilled"

C7_Witness ==
    /\ pc = "returned"
    /\ strategy = "parallel"
    /\ Len(testPromises) = 6
    /\ \E i \in 1..Len(testPromises) : testPromises[i].debugFetches = 1
    /\ \E i \in 1..Len(testPromises) : testPromises[i].promise.value.status = 0

\* The url {baseUrl}/fhir/{resourceType}[/{id}] of a standalone probe.
StandaloneUrl(url) ==
    /\ Len(url.path) \in {2, 3}
    /\ url.path[1] = "fhir"
    /\ url.path[2] \in Types

\* C8: every request a probe call sends is a standalone request for one
\* (resourceType, operation) pair; no Bundle is ever posted to the server.
C8_NoBundleRequest ==
    \A req \in sent :
        /\ req.kind # "bundle"
        /\ req.body.json # "Bundle"
        /\ StandaloneUrl(req.url)

\* The parallel iteration taken alone: its requests are standalone, and the
\* results of its probes keep notFound within allowed and give every status 0
\* an error.
ParallelIterationSound ==
    strategy = "parallel" =>
        /\ \A req \in sent : req.kind # "bundle" /\ StandaloneUrl(req.url)
        /\ \A r \in ProducedResults :
              /\ r.notFound => r.allowed
              /\ r.status = 0 => r.error # NULL

\* C9: a probe calls fetch for its primary request exactly once, also after a
\* transport failure, and the failure is that pair's error result.
C9_NoRetry ==
    strategy = "parallel" =>
        \A i \in 1..Len(testPromises) :
            LET p   == testPromises[i]
                out == primaryOutcome(server, p.resourceType, p.op.key)
            IN  /\ p.fetches = 1
                /\ (p.stage = "settled" /\ ~out.ok) =>
                      /\ p.promise.value.status = 0
                      /\ p.promise.value.error = out.message
                      /\ p.debugFetches = 0

C9_Witness ==
    /\ pc = "returned"
    /\ strategy = "parallel"
    /\ server.name = "down"
    /\ Len(testPromises) = 6
    /\ \A i \in 1..Len(testPromises) :
          testPromises[i].promise.value.error = "fetch failed"

\* The header values a response carries.
HeaderValues == { server.headers[h] : h \in HeaderNames } \ {NULL}

\* The id of the first policy of the trace whose eval-result is true.
FirstTrueId(policies) ==
    IF \E i \in 1..Len(policies) : policies[i].evalResult
    THEN LET i == CHOOSE i \in 1..Len(policies) :
                      /\ policies[i].evalResult
                      /\ \A j \in 1..(i - 1) : ~policies[j].evalResult
         IN  policies[i].id
    ELSE NULL

\* C10: per probe, (a) a response with a policy header gives that header's
\* value and no debug request; (b) without header, a debug request is made
\* exactly when the outcome is allowed, exactly once, with __debug=policy, and
\* a trace that names policies gives the id of its first policy whose
\* eval-result is true; (c) not allowed and no header: no debug request and
\* accessPolicy null.
C10_PolicyAttribution ==
    strategy = "parallel" =>
        \A i \in 1..Len(testPromises) :
            LET p   == testPromises[i]
                out == primaryOutcome(server, p.resourceType, p.op.key)
                r   == p.promise.value
                dbg == { q \in sent :
                            /\ q.kind = "debug"
                            /\ q.method = p.op.method
                            /\ q.url.path =
                                  fhirUrl(getUrl(p.op.key, p.resourceType,
                                                 p.sampleId)).path }
            IN  /\ p.debugFetches <= 1
                /\ p.stage = "fetch" => p.debugFetches = 0
                /\ p.stage = "debug" => p.debugFetches = 1
                /\ p.debugFetches = 1 =>
                      /\ dbg # {}
                      /\ \A q \in dbg :
                            q.url.query[Len(q.url.query)] = "__debug=policy"
                /\ p.stage = "settled" =>
                      IF out.ok /\ HeaderValues # {}
                      THEN /\ r.accessPolicy \in HeaderValues
                           /\ p.debugFetches = 0
                      ELSE IF out.ok /\ r.allowed
                      THEN /\ p.debugFetches = 1
                           /\ server.trace.kind = "json" =>
                                 r.accessPolicy =
                                     FirstTrueId(tracePolicies(server.trace))
                      ELSE /\ p.debugFetches = 0
                           /\ r.accessPolicy = NULL

C10_Witness ==
    /\ pc = "returned"
    /\ strategy = "parallel"
    /\ "Patient" \in DOMAIN results
    /\ results["Patient"]["read"].accessPolicy = "fhir-read"
    /\ results["Patient"]["search"].accessPolicy = NULL
    /\ \E i \in 1..Len(testPromises) : testPromises[i].debugFetches = 1
    /\ \E i \in 1..Len(testPromises) : testPromises[i].debugFetches = 0

\* The debug request of the server cannot name an allowing policy: it failed
\* in transport, answered no json or no array of policies, or its first
\* policy with eval-result true (if any) carries no id.
LookupFails(trace) ==
    \/ trace.kind # "json"
    \/ \A i \in 1..Len(tracePolicies(trace)) :
          ~tracePolicies(trace)[i].evalResult
    \/ FirstTrueId(tracePolicies(trace)) = NULL

\* C11: a probe whose debug request fails in any of these ways still fulfils
\* its promise, with accessPolicy null and with the status, the four flags,
\* the error and the body the primary response alone determines.
C11_LookupFailureSwallowed ==
    strategy = "parallel" =>
        \A i \in Settled :
            LET p   == testPromises[i]
                out == primaryOutcome(server, p.resourceType, p.op.key)
                r   == p.promise.value
            IN  (p.debugFetches = 1 /\ LookupFails(server.trace)) =>
                    /\ p.promise.state = "fulfilled"
                    /\ r.accessPolicy = NULL
                    /\ r.status = out.status
                    /\ Flags(r) = TableFlags(out.status)
                    /\ r = responseResult(p.resourceType, p.op, p.sampleId,
                                          out, NULL)

C11_Witness ==
    /\ pc = "returned"
    /\ strategy = "parallel"
    /\ server.trace.kind \in {"fail", "malformed", "nojson"}
    /\ \E i \in 1..Len(testPromises) :
          /\ testPromises[i].debugFetches = 1
          /\ testPromises[i].promise.value.allowed
          /\ testPromises[i].promise.value.accessPolicy = NULL

\* ------------------------------------------------------------------------
\* Credential resolver: process configuration and the token endpoint.
\* ------------------------------------------------------------------------

\* Most getAccessToken / resolveAuthHeader calls of one behaviour.
MaxCalls == 2

\* Most clock steps of one behaviour.
MaxTicks == 1

\* Milliseconds the clock advances by in one step.
TickMs == 30000

\* A cached token is reused until this long before it expires.
BufferMs == 30000

\* Seconds a token lives when the answer names no expires_in.
DefaultExpiresIn == 600

\* process.env, NULL for a variable that is not set.
Env(id, secret, userAuthId, userAuthSecret) ==
    [AIDBOX_URL |-> [origin |-> "http://aidbox:8080", pathname |-> "/fhir/"],
     AIDBOX_CLIENT_ID |-> id, AIDBOX_CLIENT_SECRET |-> secret,
     AIDBOX_USER_AUTH_CLIENT_ID |-> userAuthId,
     AIDBOX_USER_AUTH_CLIENT_SECRET |-> userAuthSecret]

\* A dedicated password-grant client is configured, or none is.
Configs ==
    { Env("root", "root-secret", "password-client", "pc-secret"),
      Env("root", "root-secret", NULL, NULL) }

\* new URL(process.env.AIDBOX_URL).origin
baseUrl(env) == env.AIDBOX_URL.origin

clientId(env) ==
    IF env.AIDBOX_CLIENT_ID # NULL THEN env.AIDBOX_CLIENT_ID ELSE ""

clientSecret(env) ==
    IF env.AIDBOX_CLIENT_SECRET # NULL THEN env.AIDBOX_CLIENT_SECRET ELSE ""

userAuthClientId(env) ==
    IF env.AIDBOX_USER_AUTH_CLIENT_ID # NULL
    THEN env.AIDBOX_USER_AUTH_CLIENT_ID ELSE clientId(env)

userAuthClientSecret(env) ==
    IF env.AIDBOX_USER_AUTH_CLIENT_SECRET # NULL
    THEN env.AIDBOX_USER_AUTH_CLIENT_SECRET ELSE clientSecret(env)

\* The private fields after the getters named in read have run: a field is
\* filled on its first read and kept from then on. userAuthClientId and
\* userAuthClientSecret read clientId and clientSecret when their own
\* variable is not set.
memoRead(m, env, read) ==
    LET fallsBack(var, getter) == getter \in read /\ env[var] = NULL
        reads == read
                 \cup (IF fallsBack("AIDBOX_USER_AUTH_CLIENT_ID", "userAuthClientId")
                          /\ m._userAuthClientId = NULL
                       THEN {"clientId"} ELSE {})
                 \cup (IF fallsBack("AIDBOX_USER_AUTH_CLIENT_SECRET",
                                    "userAuthClientSecret")
                          /\ m._userAuthClientSecret = NULL
                       THEN {"clientSecret"} ELSE {})
        fill(old, getter, value) ==
            IF old = NULL /\ getter \in reads THEN value ELSE old
    IN  [_baseUrl              |-> fill(m._baseUrl, "baseUrl", baseUrl(env)),
         _clientId             |-> fill(m._clientId, "clientId", clientId(env)),
         _clientSecret         |-> fill(m._clientSecret, "clientSecret",
                                        clientSecret(env)),
         _userAuthClientId     |-> fill(m._userAuthClientId, "userAuthClientId",
                                        userAuthClientId(env)),
         _userAuthClientSecret |-> fill(m._userAuthClientSecret,
                                        "userAuthClientSecret",
                                        userAuthClientSecret(env))]

\* The getters a call reads up to its await.
AccessTokenReads == {"clientId", "clientSecret", "baseUrl"}

ClientTokenReads == {"baseUrl"}

UserTokenReads == {"baseUrl", "userAuthClientId", "userAuthClientSecret"}

\* UserAuthInfo as a route receives it.
AuthInfo(type, id, secret, password) ==
    [type |-> type, id |-> id, secret |-> secret, password |-> password]

Identities ==
    { AuthInfo("client", "lab-client", "lab-secret", NULL),
      AuthInfo("client", "lab-client", "wrong", NULL),
      AuthInfo("client", "lab-client", NULL, NULL),
      AuthInfo("user", "nurse", NULL, "nurse-pw"),
      AuthInfo("user", "nurse", NULL, "wrong"),
      AuthInfo("user", "nurse", NULL, NULL) }

\* The body of a POST {baseUrl}/auth/token.
TokenRequest(grant, id, secret, username, password) ==
    [grant_type |-> grant, client_id |-> id, client_secret |-> secret,
     username |-> username, password |-> password]

serviceTokenRequest(env) ==
    TokenRequest("client_credentials", clientId(env), clientSecret(env),
                 NULL, NULL)

clientTokenRequest(id, secret) ==
    TokenRequest("client_credentials", id, secret, NULL, NULL)

\* Mutant of userTokenRequest: the identity's own id and password are sent
\* as the client's id and secret.
userTokenRequest_ownClient(env, userId, password) ==
    TokenRequest("password", userId, password, userId, password)

userTokenRequest(env, userId, password) ==
    TokenRequest("password", userAuthClientId(env), userAuthClientSecret(env),
                 userId, password)

\* The clients and users the authorization server knows.
Clients ==
    [id \in {"root", "password-client", "lab-client"} |->
        CASE id = "root" ->
               [secret |-> "root-secret", grants |-> {"client_credentials"}]
          [] id = "password-client" ->
               [secret |-> "pc-secret", grants |-> {"password"}]
          [] id = "lab-client" ->
               [secret |-> "lab-secret", grants |-> {"client_credentials"}]]

Users == [id \in {"nurse"} |-> "nurse-pw"]

\* What the token endpoint answers with; delivered is false when fetch
\* rejects, json is false when the body is no json document. An error
\* description is a sequence of phrases.
TokenAnswer(status, json, error, description, token, expiresIn) ==
    [delivered |-> TRUE, status |-> status, json |-> json, error |-> error,
     error_description |-> description, access_token |-> token,
     expires_in |-> expiresIn]

TokenFail ==
    [delivered |-> FALSE, status |-> 0, json |-> FALSE, error |-> NULL,
     error_description |-> NULL, access_token |-> NONE, expires_in |-> 0]

\* The token the server issues for request number serial.
IssuedToken(req, serial) ==
    [sub |-> IF req.grant_type = "password" THEN req.username
             ELSE req.client_id,
     serial |-> serial]

\* Seconds of life the server gives a token: explored for the service
\* client, one hour for the others; 0 when the answer names none.
Lifetimes(req) ==
    IF req.client_id = "root" THEN {0, 20, 60} ELSE {3600}

\* The refusal of a request, NONE when the server grants it.
grantRefusal(req) ==
    IF req.client_id \notin DOMAIN Clients
    THEN TokenAnswer(401, TRUE, "invalid_client",
                     <<"Client authentication failed">>, NONE, 0)
    ELSE IF Clients[req.client_id].secret # req.client_secret
    THEN TokenAnswer(401, TRUE, "invalid_client",
                     <<"Client authentication failed">>, NONE, 0)
    ELSE IF req.grant_type \notin Clients[req.client_id].grants
    THEN IF req.grant_type = "password"
         THEN TokenAnswer(400, TRUE, "invalid_grant",
                          <<"Client ", req.client_id,
                            "password grant is not allowed">>, NONE, 0)
         ELSE TokenAnswer(400, TRUE, "unauthorized_client",
                          <<"client_credentials grant is not allowed">>,
                          NONE, 0)
    ELSE IF req.grant_type = "password"
            /\ (\/ req.username \notin DOMAIN Users
                \/ Users[req.username] # req.password)
    THEN TokenAnswer(401, TRUE, "invalid_grant", <<"Wrong credentials">>,
                     NONE, 0)
    ELSE NONE

\* Answers that tell nothing about the grant: no connection, a gateway's
\* html page, a 200 whose json carries an error, a 401 with an empty json.
FaultAnswers ==
    { TokenFail,
      TokenAnswer(502, FALSE, NULL, NULL, NONE, 0),
      TokenAnswer(200, TRUE, "server_error", NULL, NONE, 0),
      TokenAnswer(401, TRUE, NULL, NULL, NONE, 0) }

\* Every answer request number serial can get.
TokenAnswers(req, serial) ==
    FaultAnswers
    \cup
    (IF grantRefusal(req) # NONE THEN {grantRefusal(req)}
     ELSE { TokenAnswer(200, TRUE, NULL, NULL, IssuedToken(req, serial), e) :
              e \in Lifetimes(req) })

\* response.ok
responseOk(a) == a.status >= 200 /\ a.status < 300

\* response.text(): the body as it was sent.
responseText(a) ==
    IF ~a.json THEN <<"<html>Bad Gateway</html>">>
    ELSE <<"{error:", a.error, ",error_description:">>
         \o (IF a.error_description = NULL THEN <<"undefined">>
             ELSE a.error_description)
         \o <<"}">>

\* String.prototype.includes, by phrase.
includes(text, phrase) ==
    /\ text # NULL
    /\ \E i \in 1..Len(text) : text[i] = phrase

\* ------------------------------------------------------------------------
\* getAccessToken, getClientToken, getUserToken, resolveAuthHeader: one step
\* up to the token request, one for its answer.
\* ------------------------------------------------------------------------

\* One call of getAccessToken or resolveAuthHeader: the token request it
\* sent (NONE when it sent none), how it settled, and the answer it got;
\* for getAccessToken also the clock and the cache it read on entry.
Call(kind, authInfo, request, state, value, error, now, cache) ==
    [kind |-> kind, authInfo |-> authInfo, request |-> request,
     state |-> state, value |-> value, error |-> error, answer |-> NONE,
     startedAt |-> now, cacheSeen |-> cache]

\* `Bearer ${token}`
bearer(token) == [scheme |-> "Bearer", token |-> token]

\* tokenData.expires_in || 600
expiresIn(a) == IF a.expires_in # 0 THEN a.expires_in ELSE DefaultExpiresIn

FetchFailed == <<"fetch failed">>

\* response.json() of a body that is no json.
SyntaxError == <<"Unexpected token < in JSON">>

accessTokenError(a) ==
    <<"Failed to get access token: ", ToString(a.status), " ">>
    \o responseText(a)

clientTokenError(a) ==
    <<"Failed to get client token: ", ToString(a.status), " ">>
    \o responseText(a)

\* Mutant of userTokenError: no message of its own for the disabled grant.
userTokenError_generic(env, a) ==
    IF a.error_description # NULL THEN a.error_description
    ELSE IF a.error # NULL THEN <<a.error>>
    ELSE <<"Failed to authenticate user: ", ToString(a.status)>>

\* The message of the Error getUserToken throws for a refused request.
userTokenError(env, a) ==
    IF a.error = "invalid_grant"
       /\ includes(a.error_description, "password grant is not allowed")
    THEN <<"Password grant not allowed for client ", userAuthClientId(env),
           "Either enable password grant on this client in Aidbox, or set AIDBOX_USER_AUTH_CLIENT_ID/SECRET environment variables to a client that supports password grant.">>
    ELSE IF a.error_description # NULL THEN a.error_description
    ELSE IF a.error # NULL THEN <<a.error>>
    ELSE <<"Failed to authenticate user: ", ToString(a.status)>>

\* Mutant of cacheValid: the token is reused until the moment it expires.
cacheValid_noBuffer(cache, now) ==
    /\ cache # NONE
    /\ cache.expiresAt > now

\* this._cachedToken && this._cachedToken.expiresAt > Date.now() + 30000
cacheValid(cache, now) ==
    /\ cache # NONE
    /\ cache.expiresAt > now + BufferMs

\* getAccessToken up to its return or its await.
accessTokenCall(env, cache, now) ==
    IF cacheValid(cache, now)
    THEN Call("getAccessToken", NONE, NONE, "fulfilled", cache.accessToken,
              NULL, now, cache)
    ELSE Call("getAccessToken", NONE, serviceTokenRequest(env), "await",
              NONE, NULL, now, cache)

\* Mutant of resolveCall: the header an earlier call resolved for the same
\* identity is returned again.
resolveCall_cached(authInfo, env, now) ==
    IF \E c \in 1..Len(calls) :
          calls[c].authInfo = authInfo /\ calls[c].state = "fulfilled"
    THEN LET c == CHOOSE c \in 1..Len(calls) :
                     calls[c].authInfo = authInfo /\ calls[c].state = "fulfilled"
         IN  Call("resolveAuthHeader", authInfo, NONE, "fulfilled",
                  calls[c].value, NULL, 0, NONE)
    ELSE IF authInfo.type = "client"
    THEN Call("resolveAuthHeader", authInfo,
              clientTokenRequest(authInfo.id, authInfo.secret), "await",
              NONE, NULL, 0, NONE)
    ELSE Call("resolveAuthHeader", authInfo,
              userTokenRequest(env, authInfo.id, authInfo.password), "await",
              NONE, NULL, 0, NONE)

\* resolveAuthHeader up to its throw or its await.
resolveCall(authInfo, env, now) ==
    IF authInfo.type = "client"
    THEN IF authInfo.secret = NULL
         THEN Call("resolveAuthHeader", authInfo, NONE, "rejected", NONE,
                   <<"Client secret is required for client authentication.">>,
                   0, NONE)
         ELSE Call("resolveAuthHeader", authInfo,
                   clientTokenRequest(authInfo.id, authInfo.secret), "await",
                   NONE, NULL, 0, NONE)
    ELSE IF authInfo.password = NULL
         THEN Call("resolveAuthHeader", authInfo, NONE, "rejected", NONE,
                   <<"Password is required for user authentication. Please enter the user's password.">>,
                   0, NONE)
         ELSE Call("resolveAuthHeader", authInfo,
                   userTokenRequest(env, authInfo.id, authInfo.password),
                   "await", NONE, NULL, 0, NONE)

\* The private fields after a resolveAuthHeader call ran up to its await:
\* a call that threw before its token request read no getter.
resolveReads(call, env, m) ==
    IF call.state # "await" THEN m
    ELSE IF call.authInfo.type = "client"
    THEN memoRead(m, env, ClientTokenReads)
    ELSE memoRead(m, env, UserTokenReads)

Outcome(state, value, error) ==
    [state |-> state, value |-> value, error |-> error]

\* getClientToken after its await: only response.ok is looked at.
clientTokenOutcome(a) ==
    IF ~a.delivered THEN Outcome("rejected", NONE, FetchFailed)
    ELSE IF ~responseOk(a) THEN Outcome("rejected", NONE, clientTokenError(a))
    ELSE IF ~a.json THEN Outcome("rejected", NONE, SyntaxError)
    ELSE Outcome("fulfilled", bearer(a.access_token), NULL)

\* getUserToken after its await: the body is parsed first, then response.ok
\* and the error member are looked at.
userTokenOutcome(env, a) ==
    IF ~a.delivered THEN Outcome("rejected", NONE, FetchFailed)
    ELSE IF ~a.json THEN Outcome("rejected", NONE, SyntaxError)
    ELSE IF ~responseOk(a) \/ a.error # NULL
    THEN Outcome("rejected", NONE, userTokenError(env, a))
    ELSE Outcome("fulfilled", bearer(a.access_token), NULL)

\* calls with call c settled.
settle(c, state, value, error, a) ==
    [calls EXCEPT ![c] = [@ EXCEPT !.state = state, !.value = value,
                                  !.error = error, !.answer = a]]

tick ==
    /\ clock < MaxTicks * TickMs
    /\ clock' = clock + TickMs
    /\ UNCHANGED <<cachedToken, calls, config, memo>>
    /\ UNCHANGED <<engineVars, routeVars>>

getAccessToken ==
    /\ Len(calls) < MaxCalls
    /\ calls' = Append(calls, accessTokenCall(config, cachedToken, clock))
    /\ memo' = IF calls'[Len(calls')].state = "await"
               THEN memoRead(memo, config, AccessTokenReads) ELSE memo
    /\ UNCHANGED <<clock, cachedToken, config>>
    /\ UNCHANGED <<engineVars, routeVars>>

\* Mutant of getAccessToken_response: a failed fetch clears the cache.
getAccessToken_response_clearOnFailure(c) ==
    /\ c \in 1..Len(calls)
    /\ calls[c].kind = "getAccessToken"
    /\ calls[c].state = "await"
    /\ \E a \in TokenAnswers(calls[c].request, c) :
          IF ~a.delivered
          THEN /\ calls' = settle(c, "rejected", NONE, FetchFailed, a)
               /\ cachedToken' = NONE
          ELSE IF ~responseOk(a)
          THEN /\ calls' = settle(c, "rejected", NONE, accessTokenError(a), a)
               /\ cachedToken' = NONE
          ELSE IF ~a.json
          THEN /\ calls' = settle(c, "rejected", NONE, SyntaxError, a)
               /\ cachedToken' = NONE
          ELSE /\ cachedToken' = [accessToken |-> a.access_token,
                                  expiresAt |-> clock + expiresIn(a) * 1000]
               /\ calls' = settle(c, "fulfilled", a.access_token, NULL, a)
    /\ UNCHANGED <<clock, config, memo>>
    /\ UNCHANGED <<engineVars, routeVars>>

\* Mutant of getAccessToken_response: a call that finds the cache refilled
\* while it waited keeps the cache and returns the cached token.
getAccessToken_response_keepFirst(c) ==
    /\ c \in 1..Len(calls)
    /\ calls[c].kind = "getAccessToken"
    /\ calls[c].state = "await"
    /\ \E a \in TokenAnswers(calls[c].request, c) :
          IF ~a.delivered
          THEN /\ calls' = settle(c, "rejected", NONE, FetchFailed, a)
               /\ UNCHANGED cachedToken
          ELSE IF ~responseOk(a)
          THEN /\ calls' = settle(c, "rejected", NONE, accessTokenError(a), a)
               /\ UNCHANGED cachedToken
          ELSE IF ~a.json
          THEN /\ calls' = settle(c, "rejected", NONE, SyntaxError, a)
               /\ UNCHANGED cachedToken
          ELSE IF cachedToken # calls[c].cacheSeen
          THEN /\ calls' = settle(c, "fulfilled", cachedToken.accessToken, NULL, a)
               /\ UNCHANGED cachedToken
          ELSE /\ cachedToken' = [accessToken |-> a.access_token,
                                  expiresAt |-> clock + expiresIn(a) * 1000]
               /\ calls' = settle(c, "fulfilled", a.access_token, NULL, a)
    /\ UNCHANGED <<clock, config, memo>>
    /\ UNCHANGED <<engineVars, routeVars>>

\* The token endpoint answers a getAccessToken: a 2xx json answer replaces
\* the cache, anything else is thrown and leaves the cache as it is.
getAccessToken_response(c) ==
    /\ c \in 1..Len(calls)
    /\ calls[c].kind = "getAccessToken"
    /\ calls[c].state = "await"
    /\ \E a \in TokenAnswers(calls[c].request, c) :
          IF ~a.delivered
          THEN /\ calls' = settle(c, "rejected", NONE, FetchFailed, a)
               /\ UNCHANGED cachedToken
          ELSE IF ~responseOk(a)
          THEN /\ calls' = settle(c, "rejected", NONE, accessTokenError(a), a)
               /\ UNCHANGED cachedToken
          ELSE IF ~a.json
          THEN /\ calls' = settle(c, "rejected", NONE, SyntaxError, a)
               /\ UNCHANGED cachedToken
          ELSE /\ cachedToken' = [accessToken |-> a.access_token,
                                  expiresAt |-> clock + expiresIn(a) * 1000]
               /\ calls' = settle(c, "fulfilled", a.access_token, NULL, a)
    /\ UNCHANGED <<clock, config, memo>>
    /\ UNCHANGED <<engineVars, routeVars>>

resolveAuthHeader(authInfo) ==
    /\ Len(calls) < MaxCalls
    /\ calls' = Append(calls, resolveCall(authInfo, config, clock))
    /\ memo' = resolveReads(calls'[Len(calls')], config, memo)
    /\ UNCHANGED <<clock, cachedToken, config>>
    /\ UNCHANGED <<engineVars, routeVars>>

\* The token endpoint answers a getClientToken.
getClientToken_response(c) ==
    /\ c \in 1..Len(calls)
    /\ calls[c].kind = "resolveAuthHeader"
    /\ calls[c].authInfo.type = "client"
    /\ calls[c].state = "await"
    /\ \E a \in TokenAnswers(calls[c].request, c) :
          LET o == clientTokenOutcome(a)
          IN  calls' = settle(c, o.state, o.value, o.error, a)
    /\ UNCHANGED <<clock, cachedToken, config, memo>>
    /\ UNCHANGED <<engineVars, routeVars>>

\* The token endpoint answers a getUserToken.
getUserToken_response(c) ==
    /\ c \in 1..Len(calls)
    /\ calls[c].kind = "resolveAuthHeader"
    /\ calls[c].authInfo.type # "client"
    /\ calls[c].state = "await"
    /\ \E a \in TokenAnswers(calls[c].request, c) :
          LET o == userTokenOutcome(config, a)
          IN  calls' = settle(c, o.state, o.value, o.error, a)
    /\ UNCHANGED <<clock, cachedToken, config, memo>>
    /\ UNCHANGED <<engineVars, routeVars>>

\* No probe call is running.
EngineUnused ==
    /\ server = CHOOSE p \in ServerProfiles : p.name = "down"
    /\ strategy = "parallel"
    /\ resourceTypes = <<>>
    /\ sampleIds = NoSampleIds
    /\ pc = "idle"
    /\ testPromises = <<>>
    /\ results = <<>>
    /\ sent = {}

InitResolve ==
    /\ EngineUnused
    /\ RoutesUnused
    /\ clock = 0
    /\ cachedToken = NONE
    /\ calls = <<>>
    /\ config \in Configs
    /\ memo = NoMemo

NextResolve ==
    \/ tick
    \/ getAccessToken
    \/ \E c \in 1..MaxCalls : getAccessToken_response(c)
    \/ \E authInfo \in Identities : resolveAuthHeader(authInfo)
    \/ \E c \in 1..MaxCalls : getClientToken_response(c)
    \/ \E c \in 1..MaxCalls : getUserToken_response(c)

SpecResolve == InitResolve /\ [][NextResolve]_vars

\* ------------------------------------------------------------------------
\* The earlier iteration of resolveAuthHeader: Basic auth for clients, a
\* password grant for users, no check of the identity.
\* ------------------------------------------------------------------------

\* Buffer.from(`${id}:${secret}`).toString('base64')
base64(id, secret) == [encoding |-> "base64", of |-> <<id, ":", secret>>]

\* `Basic ${credentials}`
basic(credentials) == [scheme |-> "Basic", credentials |-> credentials]

\* value || ''
orEmpty(value) == IF value = NULL THEN "" ELSE value

\* The earlier resolveAuthHeader up to its return or its await.
resolveCall_earlier(authInfo, env) ==
    IF authInfo.type = "client"
    THEN Call("resolveAuthHeader@earlier", authInfo, NONE, "fulfilled",
              basic(base64(authInfo.id, orEmpty(authInfo.secret))), NULL, 0, NONE)
    ELSE Call("resolveAuthHeader@earlier", authInfo,
              userTokenRequest(env, authInfo.id, orEmpty(authInfo.password)),
              "await", NONE, NULL, 0, NONE)

resolveAuthHeader_earlier(authInfo) ==
    /\ Len(calls) < MaxCalls
    /\ calls' = Append(calls, resolveCall_earlier(authInfo, config))
    /\ memo' = IF authInfo.type = "client" THEN memo
               ELSE memoRead(memo, config, UserTokenReads)
    /\ UNCHANGED <<clock, cachedToken, config>>
    /\ UNCHANGED <<engineVars, routeVars>>

\* The token endpoint answers the getUserToken of an earlier resolve.
getUserToken_earlierResponse(c) ==
    /\ c \in 1..Len(calls)
    /\ calls[c].kind = "resolveAuthHeader@earlier"
    /\ calls[c].state = "await"
    /\ \E a \in TokenAnswers(calls[c].request, c) :
          LET o == userTokenOutcome(config, a)
          IN  calls' = settle(c, o.state, o.value, o.error, a)
    /\ UNCHANGED <<clock, cachedToken, config, memo>>
    /\ UNCHANGED <<engineVars, routeVars>>

NextEarlier ==
    \/ \E authInfo \in Identities : resolveAuthHeader_earlier(authInfo)
    \/ \E c \in 1..MaxCalls : getUserToken_earlierResponse(c)

SpecEarlier == InitResolve /\ [][NextEarlier]_vars

\* ------------------------------------------------------------------------
\* Properties of the resolver.
\* ------------------------------------------------------------------------

IdentityCalls == { c \in 1..Len(calls) : calls[c].kind = "resolveAuthHeader" }

ServiceCalls == { c \in 1..Len(calls) : calls[c].kind = "getAccessToken" }

\* The identity carries the credential its type needs.
HasCredential(authInfo) ==
    IF authInfo.type = "client" THEN authInfo.secret # NULL
    ELSE authInfo.password # NULL

\* The auth client the process is configured with: the dedicated one when it
\* is set, the service client otherwise.
ConfiguredAuthClient ==
    IF config.AIDBOX_USER_AUTH_CLIENT_ID # NULL
    THEN [id |-> config.AIDBOX_USER_AUTH_CLIENT_ID,
          secret |-> config.AIDBOX_USER_AUTH_CLIENT_SECRET]
    ELSE [id |-> config.AIDBOX_CLIENT_ID,
          secret |-> config.AIDBOX_CLIENT_SECRET]

\* C12: the token request of a resolve is chosen by the identity's type: a
\* client identity sends client_credentials with its own id and secret; a
\* user identity sends a password grant with its own id and password as
\* username and password, and with the id and secret of the configured auth
\* client, which are not the identity's.
C12_GrantByIdentityType ==
    \A c \in IdentityCalls :
        LET authInfo == calls[c].authInfo
            req      == calls[c].request
        IN  HasCredential(authInfo) =>
              /\ req # NONE
              /\ IF authInfo.type = "client"
                 THEN /\ req.grant_type = "client_credentials"
                      /\ req.client_id = authInfo.id
                      /\ req.client_secret = authInfo.secret
                      /\ req.username = NULL
                      /\ req.password = NULL
                 ELSE /\ req.grant_type = "password"
                      /\ req.username = authInfo.id
                      /\ req.password = authInfo.password
                      /\ req.client_id = ConfiguredAuthClient.id
                      /\ req.client_secret = ConfiguredAuthClient.secret
                      /\ req.client_id # authInfo.id
                      /\ req.client_secret # authInfo.password

C12_Witness ==
    /\ \E c \in IdentityCalls :
          /\ calls[c].authInfo.type = "client"
          /\ calls[c].state = "fulfilled"
          /\ calls[c].value.token # NONE
    /\ \E c \in IdentityCalls :
          /\ calls[c].authInfo.type = "user"
          /\ calls[c].state = "fulfilled"
          /\ calls[c].request.client_id = "password-client"

\* The answer is a grant failure: not 2xx, or with a populated error member.
GrantFailure(a) ==
    /\ a # NONE
    /\ a.delivered
    /\ (~responseOk(a) \/ a.error # NULL)

\* C13: a resolve whose token request was answered with a grant failure is
\* rejected; it never returns a header.
C13_GrantFailureRejects ==
    \A c \in IdentityCalls :
        GrantFailure(calls[c].answer) =>
            /\ calls[c].state = "rejected"
            /\ calls[c].value = NONE

\* The request asks for a password grant through a client that exists,
\* authenticates, and has the password grant disabled.
PasswordGrantDisabled(req) ==
    /\ req # NONE
    /\ req.grant_type = "password"
    /\ req.client_id \in DOMAIN Clients
    /\ Clients[req.client_id].secret = req.client_secret
    /\ "password" \notin Clients[req.client_id].grants

\* The call was refused because of the disabled password grant.
RefusedForDisabledGrant(c) ==
    /\ PasswordGrantDisabled(calls[c].request)
    /\ calls[c].answer = grantRefusal(calls[c].request)

DedicatedPrefix == "Password grant not allowed for client "

\* C14: a user resolve refused for the disabled password grant is rejected
\* with a message that names the disabled password grant and the auth client;
\* no call rejected for another reason carries that message.
C14_DisabledGrantDedicatedError ==
    \A c \in IdentityCalls :
        IF RefusedForDisabledGrant(c)
        THEN /\ calls[c].state = "rejected"
             /\ calls[c].error[1] = DedicatedPrefix
             /\ calls[c].error[2] = ConfiguredAuthClient.id
        ELSE calls[c].state = "rejected" =>
                calls[c].error[1] # DedicatedPrefix

C14_Witness ==
    /\ \E c \in IdentityCalls :
          /\ RefusedForDisabledGrant(c)
          /\ calls[c].error[2] = "root"
    /\ \E c \in IdentityCalls :
          /\ ~RefusedForDisabledGrant(c)
          /\ calls[c].state = "rejected"
          /\ calls[c].answer # NONE
          /\ calls[c].answer.error = "invalid_client"

\* C15: a resolve refused with a grant failure that carries a description,
\* other than the disabled password grant, is rejected with exactly that
\* description as its message.
C15_DescriptionVerbatim ==
    \A c \in IdentityCalls :
        (/\ GrantFailure(calls[c].answer)
         /\ calls[c].answer.json
         /\ calls[c].answer.error_description # NULL
         /\ ~RefusedForDisabledGrant(c))
            => /\ calls[c].state = "rejected"
               /\ calls[c].error = calls[c].answer.error_description

\* User identities taken alone: every grant failure rejects the resolve, and
\* the description, when there is one, is the message.
UserGrantFailuresSound ==
    \A c \in IdentityCalls :
        (calls[c].authInfo.type = "user" /\ GrantFailure(calls[c].answer)) =>
            /\ calls[c].state = "rejected"
            /\ (/\ calls[c].answer.json
                /\ calls[c].answer.error_description # NULL
                /\ ~RefusedForDisabledGrant(c))
                  => calls[c].error = calls[c].answer.error_description

\* A step in which getAccessToken is entered: a call joins calls.
ServiceCallEntered ==
    /\ Len(calls') = Len(calls) + 1
    /\ calls'[Len(calls')].kind = "getAccessToken"

\* A step in which the token request of service call c is answered with a
\* token.
ServiceCallFetched(c) ==
    /\ c \in 1..Len(calls)
    /\ calls[c].kind = "getAccessToken"
    /\ calls[c].state = "await"
    /\ calls'[c].state = "fulfilled"

\* What one step of getAccessToken does to the cache and to the token
\* requests, by the rule: reuse while now < expiresAt - 30 s, fetch otherwise.
C16_Step ==
    /\ ServiceCallEntered =>
          LET new == calls'[Len(calls')]
          IN  /\ cachedToken' = cachedToken
              /\ IF cachedToken # NONE
                    /\ clock < cachedToken.expiresAt - 30 * 1000
                 THEN /\ new.request = NONE
                      /\ new.state = "fulfilled"
                      /\ new.value = cachedToken.accessToken
                 ELSE /\ new.request = serviceTokenRequest(config)
                      /\ new.state = "await"
    /\ \A c \in 1..MaxCalls :
          ServiceCallFetched(c) =>
              /\ calls'[c].value = calls'[c].answer.access_token
              /\ cachedToken'.accessToken = calls'[c].answer.access_token
              /\ cachedToken'.expiresAt =
                    clock + 1000 * (IF calls'[c].answer.expires_in = 0
                                    THEN 600
                                    ELSE calls'[c].answer.expires_in)
    /\ (~ServiceCallEntered /\ \A c \in 1..MaxCalls : ~ServiceCallFetched(c))
          => cachedToken' = cachedToken

\* Service calls i < j made one after the other, j while the token i fetched
\* is cached and within its time to live.
SequentialWithinTtl(i, j) ==
    /\ i \in ServiceCalls
    /\ j \in ServiceCalls
    /\ i < j
    /\ calls[i].state = "fulfilled"
    /\ calls[i].request # NONE
    /\ calls[j].cacheSeen # NONE
    /\ calls[j].cacheSeen.accessToken = calls[i].value
    /\ calls[j].startedAt < calls[j].cacheSeen.expiresAt - 30 * 1000

\* C16: getAccessToken returns the cached token without a token request
\* while now < expiresAt - 30 s; otherwise it sends one token request and a
\* token answer replaces the cache with the new token and its expiry. Of two
\* calls made one after the other within the time to live, only the first
\* sends a token request.
C16_ServiceTokenCache ==
    /\ [][C16_Step]_vars
    /\ [](\A i, j \in 1..MaxCalls :
             SequentialWithinTtl(i, j) =>
                 /\ calls[j].request = NONE
                 /\ calls[j].state = "fulfilled"
                 /\ calls[j].value = calls[i].value)

C16_Witness ==
    /\ Len(calls) = 2
    /\ SequentialWithinTtl(1, 2)
    /\ calls[1].answer.expires_in = 60
    /\ calls[2].request = NONE
    /\ cachedToken.expiresAt = 60000

\* A second service call after the time to live of a 60 s token has passed.
C16_WitnessExpired ==
    /\ Len(calls) = 2
    /\ ServiceCalls = {1, 2}
    /\ calls[1].answer # NONE
    /\ calls[1].answer.expires_in = 60
    /\ calls[2].startedAt = 30000
    /\ calls[2].cacheSeen # NONE
    /\ calls[2].state = "fulfilled"
    /\ calls[2].request # NONE
    /\ cachedToken.accessToken = calls[2].value

\* C17: every resolve of an identity that carries its credential sends a
\* token request of its own, and the header it returns holds the token issued
\* for that very request, whatever was resolved before and whatever the
\* service-token cache holds.
C17_IdentityNeverCached ==
    \A c \in IdentityCalls :
        HasCredential(calls[c].authInfo) =>
            /\ calls[c].request # NONE
            /\ (calls[c].state = "fulfilled" /\ calls[c].value.token # NONE) =>
                  /\ calls[c].answer # NONE
                  /\ calls[c].value.token = calls[c].answer.access_token
                  /\ calls[c].value.token.serial = c
                  /\ (cachedToken # NONE =>
                         calls[c].value.token # cachedToken.accessToken)

C17_Witness ==
    /\ Len(calls) = 2
    /\ IdentityCalls = {1, 2}
    /\ calls[1].authInfo = calls[2].authInfo
    /\ calls[1].state = "fulfilled"
    /\ calls[2].state = "fulfilled"
    /\ calls[1].value.token # NONE
    /\ calls[2].value.token # NONE
    /\ calls[1].value # calls[2].value

\* An identity resolved while a service token is cached.
C17_WitnessCacheSet ==
    /\ Len(calls) = 2
    /\ ServiceCalls = {1}
    /\ cachedToken # NONE
    /\ cachedToken.accessToken # NONE
    /\ calls[2].startedAt = 0
    /\ calls[2].state = "fulfilled"
    /\ calls[2].value.token # NONE

\* A step in which the token request of service call c is answered.
ServiceCallSettled(c) ==
    /\ c \in 1..Len(calls)
    /\ calls[c].kind = "getAccessToken"
    /\ calls[c].state = "await"
    /\ calls'[c].state # "await"

\* One completion of a service call, whatever the other calls have done to
\* the cache while it waited.
C23_Step ==
    \A c \in 1..MaxCalls :
        ServiceCallSettled(c) =>
            /\ \A d \in 1..Len(calls) : d # c => calls'[d] = calls[d]
            /\ IF calls'[c].state = "fulfilled"
               THEN /\ calls'[c].answer.delivered
                    /\ responseOk(calls'[c].answer)
                    /\ calls'[c].value = calls'[c].answer.access_token
                    /\ cachedToken' =
                          [accessToken |-> calls'[c].answer.access_token,
                           expiresAt   |-> clock + expiresIn(calls'[c].answer) * 1000]
               ELSE cachedToken' = cachedToken

\* The cache holds nothing, or the token member of a 2xx answer to a service
\* call that has returned it.
CacheDelivered ==
    cachedToken # NONE =>
        \E c \in ServiceCalls :
            /\ calls[c].state = "fulfilled"
            /\ calls[c].request # NONE
            /\ responseOk(calls[c].answer)
            /\ cachedToken.accessToken = calls[c].answer.access_token

\* Service calls i and j were both entered during a cache miss and both sent
\* a token request: j was entered before i completed.
Overlapping(i, j) ==
    /\ i \in ServiceCalls
    /\ j \in ServiceCalls
    /\ i < j
    /\ calls[i].request # NONE
    /\ calls[j].request # NONE
    /\ calls[i].cacheSeen = NONE
    /\ calls[j].cacheSeen = NONE

C23_WitnessOneFailed ==
    /\ Overlapping(1, 2)
    /\ calls[1].state = "fulfilled"
    /\ calls[2].state = "rejected"
    /\ cachedToken # NONE
    /\ cachedToken.accessToken = calls[1].value

\* The token request of service call c has failed: no response, or a
\* response that is not 2xx.
FetchFailure(c) ==
    /\ calls[c].answer # NONE
    /\ \/ ~calls[c].answer.delivered
       \/ ~responseOk(calls[c].answer)

\* The error a failed service-token fetch raises.
FetchError(c) ==
    IF ~calls[c].answer.delivered THEN <<"fetch failed">>
    ELSE <<"Failed to get access token: ", ToString(calls[c].answer.status), " ">>
         \o responseText(calls[c].answer)

\* C29: a service-token fetch that fails, by a response that is not 2xx or by
\* a transport failure, throws to its caller, and the step in which it fails
\* leaves the cache as it is: a token cached before stays cached.
C29_FailedFetchKeepsCache ==
    /\ [][\A c \in 1..MaxCalls :
            (ServiceCallSettled(c) /\ FetchFailure(c)') =>
                /\ calls'[c].state = "rejected"
                /\ calls'[c].value = NONE
                /\ cachedToken' = cachedToken]_vars
    /\ [](\A c \in ServiceCalls :
             (calls[c].state # "await" /\ FetchFailure(c)) =>
                 /\ calls[c].state = "rejected"
                 /\ calls[c].error = FetchError(c))

\* A fetch has failed while a token fetched before, past its time to live,
\* was cached: the token is still there.
C29_Witness ==
    /\ Len(calls) = 2
    /\ ServiceCalls = {1, 2}
    /\ calls[1].state = "fulfilled"
    /\ calls[2].cacheSeen # NONE
    /\ calls[2].cacheSeen.accessToken = calls[1].value
    /\ calls[2].request # NONE
    /\ calls[2].state = "rejected"
    /\ FetchFailure(2)
    /\ cachedToken = calls[2].cacheSeen

\* The resolves of a malformed identity, by either iteration of
\* resolveAuthHeader.
MalformedResolves ==
    { c \in 1..Len(calls) :
        /\ calls[c].kind \in {"resolveAuthHeader", "resolveAuthHeader@earlier"}
        /\ ~HasCredential(calls[c].authInfo) }

\* C28: the resolve of a client identity without a secret, or of a user
\* identity without a password, fails, and no token request is sent for it.
C28_MalformedFailsBeforeRequest ==
    \A c \in MalformedResolves :
        /\ calls[c].state = "rejected"
        /\ calls[c].request = NONE
        /\ calls[c].answer = NONE

\* The same for the latest resolveAuthHeader alone.
LatestMalformedFailsBeforeRequest ==
    \A c \in MalformedResolves :
        calls[c].kind = "resolveAuthHeader" =>
            /\ calls[c].state = "rejected"
            /\ calls[c].request = NONE
            /\ calls[c].answer = NONE
            /\ calls[c].error \in
                  { <<"Client secret is required for client authentication.">>,
                    <<"Password is required for user authentication. Please enter the user's password.">> }

\* The latest resolveAuthHeader has refused a client without a secret and a
\* user without a password.
LatestMalformedWitness ==
    /\ Len(calls) = 2
    /\ MalformedResolves = {1, 2}
    /\ calls[1].kind = "resolveAuthHeader"
    /\ calls[2].kind = "resolveAuthHeader"
    /\ calls[1].authInfo.type = "client"
    /\ calls[2].authInfo.type = "user"

\* ------------------------------------------------------------------------
\* The routes POST /test-batch and POST /compare, against a resource server
\* that keeps what is written to it.
\* ------------------------------------------------------------------------

\* The resourceTypes arrays posted to the routes.
RouteLists == { <<"Patient">> }

\* The identities posted to the routes.
RouteIdentities ==
    { AuthInfo("client", "lab-client", "lab-secret", NULL),
      AuthInfo("user", "nurse", NULL, "nurse-pw"),
      AuthInfo("user", "nurse", NULL, NULL) }

\* The operations the access policies of the server let a subject do, and
\* the policy that lets it.
Grants(sub) ==
    CASE sub = "lab-client" -> {"read", "update"}
      [] sub = "nurse"      -> {"read"}
      [] OTHER              -> {}

PolicyOf(sub) ==
    CASE sub = "lab-client" -> "lab-policy"
      [] sub = "nurse"      -> "nurse-policy"
      [] OTHER              -> NULL

\* The identity pairs posted to /compare.
ComparePairs ==
    { <<AuthInfo("client", "lab-client", "lab-secret", NULL),
        AuthInfo("client", "lab-client", "lab-secret", NULL)>>,
      <<AuthInfo("client", "lab-client", "lab-secret", NULL),
        AuthInfo("user", "nurse", NULL, "nurse-pw")>>,
      <<AuthInfo("user", "nurse", NULL, "nurse-pw"),
        AuthInfo("user", "nurse", NULL, "nurse-pw")>>,
      <<AuthInfo("client", "lab-client", "lab-secret", NULL),
        AuthInfo("user", "nurse", NULL, NULL)>>,
      <<AuthInfo("user", "nurse", NULL, NULL),
        AuthInfo("user", "nurse", NULL, "nurse-pw")>> }

\* Operations whose requests the network drops.
Outage == {"search"}

\* The id a probe addresses: sampleId || '__nonexistent__'.
probeId(sampleId) == IF sampleId # NULL THEN sampleId ELSE PLACEHOLDER

\* The answer of the server to one request, given the resources it holds:
\* a read or patch of a missing resource is 404, an update creates it.
serverOutcome(resourceType, key, auth, id, held) ==
    IF key \in Outage THEN Fail
    ELSE IF auth.token = NONE THEN Resp(401)
    ELSE IF key \notin Grants(auth.token.sub) THEN Resp(403)
    ELSE CASE key = "search" -> Resp(200)
           [] key = "read"   ->
                IF <<resourceType, id>> \in held THEN Resp(200) ELSE Resp(404)
           [] key = "create" -> Resp(201)
           [] key = "update" ->
                IF <<resourceType, id>> \in held THEN Resp(200) ELSE Resp(201)
           [] key = "patch"  ->
                IF <<resourceType, id>> \in held THEN Resp(200) ELSE Resp(404)
           [] key = "delete" ->
                IF <<resourceType, id>> \in held THEN Resp(200) ELSE Resp(204)

\* The resources the server holds after it answered the request.
storeAfter(resourceType, key, auth, id, held) ==
    LET out == serverOutcome(resourceType, key, auth, id, held)
    IN  IF ~out.ok \/ out.status < 200 \/ out.status >= 300 THEN held
        ELSE CASE key = "update" -> held \cup {<<resourceType, id>>}
               [] key = "delete" -> held \ {<<resourceType, id>>}
               [] OTHER          -> held

\* The trace a __debug=policy request is answered with.
serverTrace(auth) ==
    IF auth.token = NONE THEN TraceNoJson
    ELSE Trace(TRUE, <<Pol("deny-rule", FALSE),
                       Pol(PolicyOf(auth.token.sub), TRUE)>>, FALSE, <<>>)

\* A testSingleOperation started with userAuth, up to its first await.
authProbe(resourceType, op, userAuth) ==
    [userAuth |-> userAuth] @@ startProbe(resourceType, op, NULL)

\* A response, with the Authorization header of the request it answers.
answered(out, userAuth) == [userAuth |-> userAuth] @@ out

\* Mutant of startRun: the Authorization header is kept in a field of the
\* service that the call made last has overwritten.
startRun_sharedAuth(types, authHeader) ==
    [authHeader   |-> authHeader,
     testPromises |-> [i \in 1..(Len(types) * NumOps) |->
                          authProbe(types[((i - 1) \div NumOps) + 1],
                                    OPERATIONS[((i - 1) % NumOps) + 1],
                                    calls'[Len(calls)].value)],
     results      |-> EmptyResults(types),
     pc           |-> "running"]

\* testAccessBatch(resourceTypes, authHeader) up to its await Promise.all.
startRun(types, authHeader) ==
    [authHeader   |-> authHeader,
     testPromises |-> [i \in 1..(Len(types) * NumOps) |->
                          authProbe(types[((i - 1) \div NumOps) + 1],
                                    OPERATIONS[((i - 1) % NumOps) + 1],
                                    authHeader)],
     results      |-> EmptyResults(types),
     pc           |-> "running"]

\* res.json(results): one result set per identity.
okResponse(resultSets) ==
    [status |-> 200, error |-> NULL, results |-> resultSets]

\* Mutant of errorResponse: a failed resolution is answered with an empty
\* result set.
errorResponse_emptyResults(message) ==
    [status |-> 200, error |-> NULL, results |-> <<EmptyResults(<<>>)>>]

\* next(error): the error middleware answers 500 {error: err.message}.
errorResponse(message) ==
    [status |-> 500, error |-> message, results |-> <<>>]

\* The handler after it called resolveAuthHeader for every identity: the
\* first call that threw, if any, ends the request.
Handler(name, types, identities, started) ==
    LET thrown == { c \in 1..Len(started) : started[c].state = "rejected" }
    IN  [name          |-> name,
         resourceTypes |-> types,
         userAuth      |-> identities,
         pc            |-> IF thrown = {} THEN "resolving" ELSE "responded",
         response      |->
            IF thrown = {} THEN NONE
            ELSE errorResponse(
                   started[CHOOSE c \in thrown : \A d \in thrown : c <= d].error)]

postTestBatch ==
    /\ route = NONE
    /\ \A c \in 1..Len(calls) : calls[c].state # "await"
    /\ \E types \in RouteLists, userAuth \in RouteIdentities :
          LET started == <<resolveCall(userAuth, config, clock)>>
          IN  /\ calls' = started
              /\ route' = Handler("test-batch", types, <<userAuth>>, started)
              /\ memo' = resolveReads(started[1], config, memo)
    /\ UNCHANGED <<clock, cachedToken, config, runs, store, served>>
    /\ UNCHANGED engineVars

postCompare ==
    /\ route = NONE
    /\ \E types \in RouteLists, pair \in ComparePairs :
          LET started == <<resolveCall(pair[1], config, clock),
                           resolveCall(pair[2], config, clock)>>
          IN  /\ calls' = started
              /\ route' = Handler("compare", types, pair, started)
              /\ memo' = resolveReads(started[2], config,
                                      resolveReads(started[1], config, memo))
    /\ UNCHANGED <<clock, cachedToken, config, runs, store, served>>
    /\ UNCHANGED engineVars

\* The authorization server issues no token twice: the serial of the token
\* for resolve c of the request being served.
tokenSerial(c) == 2 * Len(served) + c

\* Mutant of resolvesFulfilled: the handler goes on as soon as one of its
\* resolves has returned.
resolvesFulfilled_any(resolves) ==
    \E d \in 1..Len(resolves) : resolves[d].state = "fulfilled"

\* await resolveAuthHeader(...) / await Promise.all([...]) returns: every
\* resolve of the handler has returned its header.
resolvesFulfilled(resolves) ==
    \A d \in 1..Len(resolves) : resolves[d].state = "fulfilled"

\* Mutant of resolveAuthHeader_settled: the token of the identity is written
\* to the service-token cache.
resolveAuthHeader_settledCaching(c) ==
    /\ route # NONE
    /\ c \in 1..Len(calls)
    /\ calls[c].state = "await"
    /\ \E a \in TokenAnswers(calls[c].request, tokenSerial(c)) :
          LET o == IF calls[c].authInfo.type = "client"
                   THEN clientTokenOutcome(a)
                   ELSE userTokenOutcome(config, a)
              after == settle(c, o.state, o.value, o.error, a)
          IN  /\ calls' = after
              /\ cachedToken' =
                    IF o.state = "fulfilled"
                    THEN [accessToken |-> o.value.token,
                          expiresAt   |-> clock + expiresIn(a) * 1000]
                    ELSE cachedToken
              /\ IF route.pc # "resolving"
                 THEN UNCHANGED <<route, runs>>
                 ELSE IF o.state = "rejected"
                 THEN /\ route' = [route EXCEPT !.pc = "responded",
                                        !.response = errorResponse(o.error)]
                      /\ UNCHANGED runs
                 ELSE IF resolvesFulfilled(after)
                 THEN /\ route' = [route EXCEPT !.pc = "probing"]
                      /\ runs' = [d \in 1..Len(after) |->
                                    startRun(route.resourceTypes, after[d].value)]
                 ELSE UNCHANGED <<route, runs>>
    /\ UNCHANGED <<clock, config, memo, store, served>>
    /\ UNCHANGED engineVars

\* The token endpoint answers resolve c of the handler. A rejection ends the
\* request at once; the last fulfilment starts one testAccessBatch per
\* identity; a resolve that settles after the request has ended changes
\* nothing.
resolveAuthHeader_settled(c) ==
    /\ route # NONE
    /\ c \in 1..Len(calls)
    /\ calls[c].state = "await"
    /\ \E a \in TokenAnswers(calls[c].request, tokenSerial(c)) :
          LET o == IF calls[c].authInfo.type = "client"
                   THEN clientTokenOutcome(a)
                   ELSE userTokenOutcome(config, a)
              after == settle(c, o.state, o.value, o.error, a)
          IN  /\ calls' = after
              /\ IF route.pc # "resolving"
                 THEN UNCHANGED <<route, runs>>
                 ELSE IF o.state = "rejected"
                 THEN /\ route' = [route EXCEPT !.pc = "responded",
                                        !.response = errorResponse(o.error)]
                      /\ UNCHANGED runs
                 ELSE IF resolvesFulfilled(after)
                 THEN /\ route' = [route EXCEPT !.pc = "probing"]
                      /\ runs' = [d \in 1..Len(after) |->
                                    startRun(route.resourceTypes, after[d].value)]
                 ELSE UNCHANGED <<route, runs>>
    /\ UNCHANGED <<clock, cachedToken, config, memo, store, served>>
    /\ UNCHANGED engineVars

\* Probe i of run r: fetch rejects, the catch block makes it the result.
probe_catch(r, i) ==
    /\ route # NONE
    /\ r \in 1..Len(runs)
    /\ runs[r].pc = "running"
    /\ i \in 1..Len(runs[r].testPromises)
    /\ runs[r].testPromises[i].stage = "fetch"
    /\ LET p   == runs[r].testPromises[i]
           out == serverOutcome(p.resourceType, p.op.key, p.userAuth,
                                probeId(p.sampleId), store)
       IN  /\ ~out.ok
           /\ runs' = [runs EXCEPT ![r].testPromises[i] =
                 [p EXCEPT !.stage = "settled",
                           !.promise = Fulfilled(caughtResult(
                               p.resourceType, p.op, p.sampleId, out.message))]]
    /\ UNCHANGED <<clock, cachedToken, calls, config, memo, route, store, served>>
    /\ UNCHANGED engineVars

\* Probe i of run r: the server carries the request out and answers.
probe_response(r, i) ==
    /\ route # NONE
    /\ r \in 1..Len(runs)
    /\ runs[r].pc = "running"
    /\ i \in 1..Len(runs[r].testPromises)
    /\ runs[r].testPromises[i].stage = "fetch"
    /\ LET p   == runs[r].testPromises[i]
           out == serverOutcome(p.resourceType, p.op.key, p.userAuth,
                                probeId(p.sampleId), store)
           accessPolicy == getAccessPolicyFromHeaders(NoHeaders)
       IN  /\ out.ok
           /\ store' = storeAfter(p.resourceType, p.op.key, p.userAuth,
                                  probeId(p.sampleId), store)
           /\ runs' = [runs EXCEPT ![r].testPromises[i] =
                 IF accessAllowed(out.status) /\ accessPolicy = NULL
                 THEN [p EXCEPT !.stage = "debug",
                                !.debugFetches = @ + 1,
                                !.response = answered(out, p.userAuth)]
                 ELSE [p EXCEPT !.stage = "settled",
                                !.response = answered(out, p.userAuth),
                                !.promise = Fulfilled(responseResult(
                                    p.resourceType, p.op, p.sampleId, out,
                                    accessPolicy))]]
    /\ UNCHANGED <<clock, cachedToken, calls, config, memo, route, served>>
    /\ UNCHANGED engineVars

\* Probe i of run r: findAllowingPolicy resolves.
probe_debug(r, i) ==
    /\ route # NONE
    /\ r \in 1..Len(runs)
    /\ runs[r].pc = "running"
    /\ i \in 1..Len(runs[r].testPromises)
    /\ runs[r].testPromises[i].stage = "debug"
    /\ LET p == runs[r].testPromises[i]
       IN  runs' = [runs EXCEPT ![r].testPromises[i] =
              [p EXCEPT !.stage = "settled",
                        !.promise = Fulfilled(responseResult(
                            p.resourceType, p.op, p.sampleId, p.response,
                            findAllowingPolicy(serverTrace(p.userAuth))))]]
    /\ UNCHANGED <<clock, cachedToken, calls, config, memo, route, store, served>>
    /\ UNCHANGED engineVars

\* Run r returns its result set; the handler answers once every run has.
testAccessBatch_runReturn(r) ==
    /\ route # NONE
    /\ r \in 1..Len(runs)
    /\ runs[r].pc = "running"
    /\ promiseAllResolved(runs[r].testPromises)
    /\ runs' = [runs EXCEPT ![r] =
          [@ EXCEPT !.results = mapBack(runs[r].testPromises, 1,
                                        runs[r].results),
                    !.pc = "returned"]]
    /\ route' =
          IF \A d \in 1..Len(runs') : runs'[d].pc = "returned"
          THEN [route EXCEPT !.pc = "responded",
                  !.response = okResponse(
                      [d \in 1..Len(runs') |-> runs'[d].results])]
          ELSE route
    /\ UNCHANGED <<clock, cachedToken, calls, config, memo, store, served>>
    /\ UNCHANGED engineVars

\* The routes are explored with a dedicated password-grant client configured.
InitCompare ==
    /\ EngineUnused
    /\ RoutesUnused
    /\ clock = 0
    /\ cachedToken = NONE
    /\ calls = <<>>
    /\ config = Env("root", "root-secret", "password-client", "pc-secret")
    /\ memo = NoMemo

NextCompare ==
    \/ postTestBatch
    \/ postCompare
    \/ \E c \in 1..2 : resolveAuthHeader_settled(c)
    \/ \E r \in 1..2, i \in 1..NumOps : probe_catch(r, i)
    \/ \E r \in 1..2, i \in 1..NumOps : probe_response(r, i)
    \/ \E r \in 1..2, i \in 1..NumOps : probe_debug(r, i)
    \/ \E r \in 1..2 : testAccessBatch_runReturn(r)

SpecCompare == InitCompare /\ [][NextCompare]_vars

\* ------------------------------------------------------------------------
\* Order of resolves and probes in a compare.
\* ------------------------------------------------------------------------

\* A probe request of the handler has been handed to fetch.
ProbeIssued ==
    \E r \in 1..Len(runs) : Len(runs[r].testPromises) > 0

\* A step in which the handler of /compare is entered.
CompareEntered ==
    /\ route = NONE
    /\ route' # NONE
    /\ route'.name = "compare"

\* C27: in a compare both resolves are started in the step that enters the
\* handler, before either has an answer; probe requests exist only once both
\* resolves have returned a header, and then for both identities at once; if
\* a resolve has failed there is no probe request at all.
C27_ProbesAfterBothResolved ==
    /\ [][CompareEntered =>
            /\ Len(calls') = 2
            /\ \A c \in 1..2 :
                  /\ calls'[c].authInfo = route'.userAuth[c]
                  /\ calls'[c].answer = NONE
                  /\ calls'[c].request = NONE => calls'[c].state = "rejected"
            /\ ~ProbeIssued']_vars
    /\ []((route # NONE /\ route.name = "compare") =>
            /\ ProbeIssued =>
                  /\ \A c \in 1..2 : calls[c].state = "fulfilled"
                  /\ Len(runs) = 2
                  /\ \A r \in 1..2 : Len(runs[r].testPromises) = NumOps
            /\ (\E c \in 1..2 : calls[c].state # "fulfilled") => ~ProbeIssued)

\* Both token requests of a compare are out and neither is answered.
C27_WitnessTogether ==
    /\ route # NONE
    /\ route.name = "compare"
    /\ \A c \in 1..2 : calls[c].state = "await" /\ calls[c].request # NONE
    /\ ~ProbeIssued

\* The first resolve has returned its header, the second has not: no probe
\* of the first identity is out yet.
C27_Witness ==
    /\ route # NONE
    /\ route.name = "compare"
    /\ calls[1].state = "fulfilled"
    /\ calls[2].state = "await"
    /\ ~ProbeIssued

\* The second resolve failed after the first had returned.
C27_WitnessFailed ==
    /\ route # NONE
    /\ route.name = "compare"
    /\ calls[1].state = "fulfilled"
    /\ calls[2].state = "rejected"
    /\ calls[2].answer # NONE
    /\ route.pc = "responded"
    /\ ~ProbeIssued

\* ------------------------------------------------------------------------
\* Requests served one after the other by the same service and server.
\* ------------------------------------------------------------------------

\* Number of requests served in a row.
MaxRequests == 2

\* What the caller of a served request holds: what it posted and what it got.
Served(r) ==
    [name |-> r.name, resourceTypes |-> r.resourceTypes,
     userAuth |-> r.userAuth, response |-> r.response]

\* The handler has answered and returned: its locals are gone, the service
\* and the server stay as they are.
handlerReturn ==
    /\ route # NONE
    /\ route.pc = "responded"
    /\ \A c \in 1..Len(calls) : calls[c].state # "await"
    /\ Len(served) < MaxRequests
    /\ served' = Append(served, Served(route))
    /\ route' = NONE
    /\ runs' = <<>>
    /\ calls' = <<>>
    /\ UNCHANGED <<clock, cachedToken, config, memo, store>>
    /\ UNCHANGED engineVars

\* A request is taken while fewer than MaxRequests were served.
postTestBatch_next ==
    /\ Len(served) < MaxRequests
    /\ postTestBatch

\* A route of the users router asks for the service token between requests.
getAccessToken_idle ==
    /\ route = NONE
    /\ calls = <<>>
    /\ getAccessToken

getAccessToken_idleResponse ==
    /\ route = NONE
    /\ getAccessToken_response(1)

InitSequence == InitCompare

NextSequence ==
    \/ getAccessToken_idle
    \/ getAccessToken_idleResponse
    \/ postTestBatch_next
    \/ resolveAuthHeader_settled(1)
    \/ \E i \in 1..NumOps : probe_catch(1, i)
    \/ \E i \in 1..NumOps : probe_response(1, i)
    \/ \E i \in 1..NumOps : probe_debug(1, i)
    \/ testAccessBatch_runReturn(1)
    \/ handlerReturn

SpecSequence == InitSequence /\ [][NextSequence]_vars

\* ------------------------------------------------------------------------
\* Properties of the routes.
\* ------------------------------------------------------------------------

Rejected == { c \in 1..Len(calls) : calls[c].state = "rejected" }

\* C18: once a resolve of the request has failed, the request is answered
\* with that error and with no result set, and no testAccessBatch was started
\* for any identity of the request.
C18_ResolveFailureFailsWhole ==
    (route # NONE /\ Rejected # {}) =>
        /\ route.pc = "responded"
        /\ route.response.status = 500
        /\ \E c \in Rejected : route.response.error = calls[c].error
        /\ route.response.results = <<>>
        /\ runs = <<>>

C18_Witness ==
    /\ route # NONE
    /\ route.name = "compare"
    /\ Len(calls) = 2
    /\ calls[1].state = "fulfilled"
    /\ calls[2].state = "rejected"
    /\ calls[2].answer # NONE
    /\ route.response.error = calls[2].error

\* /test-batch with a failed resolve.
C18_WitnessTestBatch ==
    /\ route # NONE
    /\ route.name = "test-batch"
    /\ Rejected = {1}
    /\ calls[1].answer # NONE
    /\ route.response.status = 500

\* The last started probe of run r for a (resourceType, operation) pair.
RunLastProbe(r, rt, k) ==
    CHOOSE i \in 1..Len(runs[r].testPromises) :
        /\ runs[r].testPromises[i].resourceType = rt
        /\ runs[r].testPromises[i].op.key = k
        /\ \A j \in 1..Len(runs[r].testPromises) :
              (/\ runs[r].testPromises[j].resourceType = rt
               /\ runs[r].testPromises[j].op.key = k) => j <= i

\* C19: in a compare, every probe of run r carries the header resolved for
\* identity r, every response and policy its result is built from answers a
\* request with that header, and each of the two returned result sets holds
\* the results of its own run's probes, six per requested resource type.
C19_NoCrossContamination ==
    (route # NONE /\ route.name = "compare") =>
        /\ \A r \in 1..Len(runs) :
              /\ calls[r].authInfo = route.userAuth[r]
              /\ runs[r].authHeader = calls[r].value
              /\ runs[r].authHeader.token # NONE =>
                    runs[r].authHeader.token.sub = route.userAuth[r].id
              /\ \A i \in 1..Len(runs[r].testPromises) :
                    LET p == runs[r].testPromises[i]
                    IN  /\ p.userAuth = calls[r].value
                        /\ p.response.ok =>
                              p.response.userAuth = calls[r].value
                        /\ p.stage = "settled" =>
                              p.promise.value.accessPolicy \in
                                  {NULL, PolicyOf(route.userAuth[r].id)}
        /\ (route.pc = "responded" /\ route.response.status = 200) =>
              /\ Len(route.response.results) = 2
              /\ \A r \in 1..2 :
                    LET set == route.response.results[r]
                    IN  /\ DOMAIN set = Range(route.resourceTypes)
                        /\ \A rt \in DOMAIN set :
                              /\ DOMAIN set[rt] = SixOperations
                              /\ \A k \in SixOperations :
                                    set[rt][k] =
                                       runs[r].testPromises[
                                          RunLastProbe(r, rt, k)].promise.value
                        /\ Cardinality({ <<rt, k>> : rt \in DOMAIN set,
                                                     k \in SixOperations })
                              = Len(route.resourceTypes) * 6

C19_Witness ==
    /\ route # NONE
    /\ route.name = "compare"
    /\ route.pc = "responded"
    /\ route.response.status = 200
    /\ route.userAuth[1].id = "lab-client"
    /\ route.userAuth[2].id = "nurse"
    /\ route.response.results[1]["Patient"]["update"].accessPolicy = "lab-policy"
    /\ route.response.results[2]["Patient"]["read"].accessPolicy = "nurse-policy"
    /\ route.response.results[2]["Patient"]["update"].denied

\* A compare of one identity with itself has answered.
SameIdentityCompared ==
    /\ route # NONE
    /\ route.name = "compare"
    /\ route.pc = "responded"
    /\ route.response.status = 200
    /\ route.userAuth[1] = route.userAuth[2]

\* C20: the two result sets of a compare of one identity with itself have
\* the same keys and, pair by pair, the same status and the same flags.
C20_CompareReflexive ==
    SameIdentityCompared =>
        LET a == route.response.results[1]
            b == route.response.results[2]
        IN  /\ DOMAIN a = DOMAIN b
            /\ \A rt \in DOMAIN a :
                  /\ DOMAIN a[rt] = DOMAIN b[rt]
                  /\ \A k \in DOMAIN a[rt] :
                        /\ a[rt][k].status = b[rt][k].status
                        /\ Flags(a[rt][k]) = Flags(b[rt][k])

\* The same for an identity that is granted no operation that writes.
ReadOnlyCompareReflexive ==
    (SameIdentityCompared
     /\ Grants(route.userAuth[1].id) \cap {"create", "update", "patch", "delete"}
           = {})
        => LET a == route.response.results[1]
               b == route.response.results[2]
           IN  \A rt \in DOMAIN a, k \in SixOperations :
                   /\ a[rt][k].status = b[rt][k].status
                   /\ Flags(a[rt][k]) = Flags(b[rt][k])

\* ------------------------------------------------------------------------
\* Properties of requests served in a row.
\* ------------------------------------------------------------------------

\* Two probe calls for one identity and one list of types were answered.
SameProbeRepeated ==
    /\ Len(served) = 2
    /\ served[1].userAuth = served[2].userAuth
    /\ served[1].resourceTypes = served[2].resourceTypes
    /\ served[1].response.status = 200
    /\ served[2].response.status = 200

\* C21: two probe calls in a row for the same identity and the same
\* resource types give, for every (resourceType, operation), the same flags
\* allowed, unauthorized, denied and notFound, the server being left to what
\* the first call did to it.
C21_SequentialSameFlags ==
    SameProbeRepeated =>
        LET a == served[1].response.results[1]
            b == served[2].response.results[1]
        IN  \A rt \in DOMAIN a, k \in SixOperations :
                Flags(a[rt][k]) = Flags(b[rt][k])

\* The same for an identity that is granted no operation that writes.
ReadOnlySequentialSameFlags ==
    (SameProbeRepeated
     /\ Grants(served[1].userAuth[1].id)
           \cap {"create", "update", "patch", "delete"} = {})
        => LET a == served[1].response.results[1]
               b == served[2].response.results[1]
           IN  \A rt \in DOMAIN a, k \in SixOperations :
                   Flags(a[rt][k]) = Flags(b[rt][k])

\* A read-only identity was probed twice.
ReadOnlySequentialWitness ==
    /\ SameProbeRepeated
    /\ served[1].userAuth[1].id = "nurse"
    /\ served[2].response.results[1]["Patient"]["read"].allowed

\* ------------------------------------------------------------------------
\* Properties of the requests a probe call sends.
\* ------------------------------------------------------------------------

WriteMethods == {"POST", "PUT", "PATCH", "DELETE"}

\* The write requests of the probes sent so far, diagnostic repeats included.
ProbeWrites ==
    { q \in sent : q.kind \in {"probe", "debug"} /\ q.method \in WriteMethods }

\* The id in the url of q, if it has one, and the id in its body, if it has
\* one, are the placeholder.
OnlyPlaceholder(q) ==
    /\ Len(q.url.path) = 3 => q.url.path[3] = PLACEHOLDER
    /\ q.body.id \in {NULL, PLACEHOLDER}

\* C22: every write request of a probe, through any entry point, targets and
\* carries the placeholder id only.
C22_WritesOnlyPlaceholder ==
    \A q \in ProbeWrites : OnlyPlaceholder(q)

\* The same for the calls that pass no sample id (/test-batch, /compare, and
\* /test without existingResourceId).
WritesOnlyPlaceholderWithoutSample ==
    sampleIds = NoSampleIds => \A q \in ProbeWrites : OnlyPlaceholder(q)

\* A call without sample ids has sent an update, and a diagnostic repeat of
\* one of its writes.
WritesWithoutSampleWitness ==
    /\ sampleIds = NoSampleIds
    /\ \E q \in ProbeWrites : q.kind = "probe" /\ q.method = "PUT"
    /\ \E q \in ProbeWrites : q.kind = "debug"

\* ------------------------------------------------------------------------
\* Properties of the operation catalog.
\* ------------------------------------------------------------------------

\* The catalog as a table: key and method, in order.
CatalogTable ==
    << <<"search", "GET">>, <<"read", "GET">>, <<"create", "POST">>,
       <<"update", "PUT">>, <<"patch", "PATCH">>, <<"delete", "DELETE">> >>

\* The path below /fhir and the query an operation targets, id = NULL when
\* no id is given.
TableTarget(k, rt, id) ==
    CASE k = "search" -> [path |-> <<"fhir", rt>>, query |-> <<"_count=0">>]
      [] k = "create" -> [path |-> <<"fhir", rt>>, query |-> <<>>]
      [] OTHER        ->
           [path  |-> <<"fhir", rt, IF id # NULL THEN id ELSE "__nonexistent__">>,
            query |-> <<>>]

\* The body an operation sends.
TableBody(k, rt, id) ==
    CASE k = "create" -> [json |-> "resource", resourceType |-> rt, id |-> NULL]
      [] k = "update" ->
           [json |-> "resource", resourceType |-> rt,
            id |-> TableTarget(k, rt, id).path[3]]
      [] k = "patch"  -> [json |-> "patch-test", resourceType |-> rt, id |-> NULL]
      [] OTHER        -> [json |-> "none", resourceType |-> NULL, id |-> NULL]

\* The request the table gives for operation n of the catalog.
TableRequest(n, rt, id) ==
    [kind   |-> "probe",
     method |-> CatalogTable[n][2],
     url    |-> TableTarget(CatalogTable[n][1], rt, id),
     body   |-> TableBody(CatalogTable[n][1], rt, id)]

\* C24: the catalog is search(GET), read(GET), create(POST), update(PUT),
\* patch(PATCH), delete(DELETE) in this order, and the requests of a call of
\* the parallel iteration are, per resource type and in catalog order, the
\* ones of the table: the url by operation and optional id, the body by
\* operation, the update body naming the id of its url.
C24_CatalogRequests ==
    /\ Len(OPERATIONS) = 6
    /\ \A n \in 1..6 :
          <<OPERATIONS[n].key, OPERATIONS[n].method>> = CatalogTable[n]
    /\ (strategy = "parallel" /\ pc # "idle") =>
          /\ Len(testPromises) = 6 * Len(resourceTypes)
          /\ \A i \in 1..Len(testPromises) :
                LET p  == testPromises[i]
                    n  == ((i - 1) % 6) + 1
                    rt == resourceTypes[((i - 1) \div 6) + 1]
                IN  /\ p.resourceType = rt
                    /\ p.op.key = CatalogTable[n][1]
                    /\ TableRequest(n, rt, sampleIds[rt]) \in sent
          /\ \A q \in sent :
                q.kind = "probe" =>
                    \E rt \in Range(resourceTypes), n \in 1..6 :
                        q = TableRequest(n, rt, sampleIds[rt])

\* A call with an id has sent its update to that id, with that id in the body.
C24_Witness ==
    /\ strategy = "parallel"
    /\ pc # "idle"
    /\ sampleIds["Patient"] = "pt-1"
    /\ \E q \in sent :
          /\ q.kind = "probe"
          /\ q.method = "PUT"
          /\ q.url.path = <<"fhir", "Patient", "pt-1">>
          /\ q.body.id = "pt-1"
    /\ \E q \in sent :
          /\ q.kind = "probe"
          /\ q.method = "GET"
          /\ q.url.query = <<"_count=0">>
          /\ Len(q.url.path) = 2

\* A call without an id has sent its writes to the placeholder.
C24_WitnessPlaceholder ==
    /\ strategy = "parallel"
    /\ pc # "idle"
    /\ sampleIds = NoSampleIds
    /\ \E q \in sent :
          /\ q.kind = "probe"
          /\ q.method = "PATCH"
          /\ q.url.path = <<"fhir", "Observation", "__nonexistent__">>
          /\ q.body.json = "patch-test"

\* ------------------------------------------------------------------------
\* Properties of the state the service keeps between requests.
\* ------------------------------------------------------------------------

\* A step of a route handler: of its resolve, of its probe call, its answer
\* or its return.
RequestStep == route # NONE \/ route' # NONE

\* A step in which a handler is entered.
RequestEntered == route = NONE /\ route' # NONE

\* A step in which the probe calls of the handler are started.
RunsStarted == runs = <<>> /\ runs' # <<>>

\* Nothing of an earlier request is in what a handler starts from: its
\* resolves are the ones of the identities posted, none of them answered from
\* memory; the header of each probe call is the one its own resolve returned,
\* with the token issued for this request.
StartsFresh ==
    /\ RequestEntered =>
          /\ runs' = <<>>
          /\ Len(calls') = Len(route'.userAuth)
          /\ \A c \in 1..Len(calls') :
                /\ calls'[c].authInfo = route'.userAuth[c]
                /\ calls'[c].state \in {"await", "rejected"}
                /\ calls'[c].state = "await" => calls'[c].request # NONE
                /\ calls'[c].answer = NONE
    /\ RunsStarted =>
          \A r \in 1..Len(runs') :
              /\ runs'[r].authHeader = calls'[r].value
              /\ calls'[r].answer.access_token = runs'[r].authHeader.token
              /\ runs'[r].authHeader.token # NONE =>
                    runs'[r].authHeader.token.serial = tokenSerial(r)
              /\ runs'[r].results = EmptyResults(route'.resourceTypes)
              /\ \A i \in 1..Len(runs'[r].testPromises) :
                    /\ runs'[r].testPromises[i].stage = "fetch"
                    /\ runs'[r].testPromises[i].promise = Pending

\* C25 as stated: a step of a request changes nothing the service keeps, and
\* a handler starts from nothing an earlier request left.
C25_OnlyCacheDiffers ==
    [][RequestStep =>
          /\ cachedToken' = cachedToken
          /\ memo' = memo
          /\ StartsFresh]_vars

\* A private field of the service, once filled, keeps its value, and the
\* value is the one the getter reads from the environment.
MemoFromEnv ==
    /\ \A f \in DOMAIN memo : memo[f] # NULL => memo'[f] = memo[f]
    /\ memo'._baseUrl \in {NULL, baseUrl(config)}
    /\ memo'._clientId \in {NULL, clientId(config)}
    /\ memo'._clientSecret \in {NULL, clientSecret(config)}
    /\ memo'._userAuthClientId \in {NULL, userAuthClientId(config)}
    /\ memo'._userAuthClientSecret \in {NULL, userAuthClientSecret(config)}
    /\ config' = config

\* C25: a step of a request leaves the service-token cache as it is, and a
\* handler starts from nothing an earlier request left; of what the service
\* keeps, a request changes only configuration fields, each filled once from
\* the environment and kept.
C25_FrameEffect ==
    [][RequestStep =>
          /\ cachedToken' = cachedToken
          /\ MemoFromEnv
          /\ StartsFresh]_vars

\* A second probe call for the identity of the first has returned, with its
\* own token, while a service token fetched before the first is cached.
C25_Witness ==
    /\ Len(served) = 1
    /\ served[1].response.status = 200
    /\ route # NONE
    /\ route.pc = "responded"
    /\ route.response.status = 200
    /\ route.userAuth = served[1].userAuth
    /\ runs[1].authHeader.token # NONE
    /\ runs[1].authHeader.token.serial = 3
    /\ cachedToken # NONE
    /\ cachedToken.accessToken # NONE
    /\ cachedToken.accessToken.sub = "root"
    /\ memo._userAuthClientId = "password-client"

\* ------------------------------------------------------------------------
\* Termination of a probe call.
\* ------------------------------------------------------------------------

\* The call has returned a result set with an entry for every request it
\* issued, each request having run to its response or its failure.
ReturnedComplete ==
    /\ pc = "returned"
    /\ \A i \in 1..Len(testPromises) :
          /\ testPromises[i].stage = "settled"
          /\ testPromises[i].promise.state = "fulfilled"
          /\ results[testPromises[i].resourceType][testPromises[i].op.key]
                \in { testPromises[j].promise.value : j \in 1..Len(testPromises) }

\* No started probe is dropped and no settled probe is reopened.
NoCancel ==
    /\ Len(testPromises') >= Len(testPromises)
    /\ \A i \in 1..Len(testPromises) :
          /\ testPromises'[i].resourceType = testPromises[i].resourceType
          /\ testPromises'[i].op = testPromises[i].op
          /\ testPromises[i].promise.state = "fulfilled" =>
                testPromises'[i].promise = testPromises[i].promise

\* C26: if every issued request settles, a probe call that has issued its
\* requests returns its result set, every request having run to completion
\* or to its own failure; no probe is cancelled on the way.
C26_ProbeCallReturns ==
    /\ (pc = "running") ~> ReturnedComplete
    /\ [][NoCancel]_vars

\* A call of the parallel iteration has returned with a failed request among
\* its six.
C26_Witness ==
    /\ strategy = "parallel"
    /\ Len(testPromises) = NumOps
    /\ ReturnedComplete
    /\ \E i \in 1..Len(testPromises) : testPromises[i].promise.value.status = 0
    /\ \E i \in 1..Len(testPromises) : testPromises[i].promise.value.status # 0

\* ------------------------------------------------------------------------
\* The two classifiers side by side.
\* ------------------------------------------------------------------------

\* The flags testSingleOperation gives a response of this status.
singleFlags(status) ==
    Flags(responseResult("Patient", OPERATIONS[1], NULL, Resp(status), NULL))

\* The flags parseBatchResponse gives a Bundle entry of this status.
batchFlags(status) ==
    Flags(parsedEntry(<< [status |-> ToString(status), resource |-> NULL] >>,
                      1, "Patient", OPERATIONS[1]))

\* C30: for the status of every result the service produces, by either
\* classifier, parseBatchResponse and testSingleOperation give the same
\* allowed, unauthorized, denied and notFound.
C30_ClassifiersAgree ==
    \A r \in ProducedResults : singleFlags(r.status) = batchFlags(r.status)

\* The statuses testSingleOperation counts as allowed although they are not
\* 2xx.
LenientStatuses == {404, 410, 422}

\* The two classifiers agree on every other status.
ClassifiersAgreeElsewhere ==
    \A r \in ProducedResults :
        r.status \notin LenientStatuses =>
            /\ singleFlags(r.status) = batchFlags(r.status)
            /\ Flags(r) = singleFlags(r.status)

\* Results of 2xx, 401, 403 and failed requests were produced by both
\* classifiers.
ClassifiersAgreeWitness ==
    /\ pc = "returned"
    /\ strategy = "bundle"
    /\ \E r \in ProducedResults : r.status = 403
    /\ \E r \in ProducedResults : r.status \in {200, 201, 204}

====
